---- MODULE Spec2Model ----
(***************************************************************************)
(* Blog backend: the view-counter path (get_article, RedisClient.incr,     *)
(* sync_views_to_db), the versioned resource-list cache (create_resource,  *)
(* get_resources, delete_resource) and the cache client (RedisClient).     *)
(*                                                                         *)
(* Strings that the code parses, formats or tests for truthiness are       *)
(* sequences of one-character strings; Python's None is the value None.    *)
(***************************************************************************)
EXTENDS Integers, Sequences, FiniteSets, TLC

VARIABLES
    view_count,   \* articles.view_count, committed rows: [ArticleIds -> Nat]
    redis,        \* the store's view-counter keys: [ViewKeys -> string or None]
    req,          \* the get_article requests in flight, one per worker
    sync,         \* the sync_views_to_db pass: position, scan, updates, session
    hist,         \* history of the view-counter path (not program state)
    res_rows,     \* the resources table, committed rows in creation order
    res_next_id,  \* the next autoincrement id of the resources table
    rversion,     \* the store's key resources:list:version: string or None
    rpages,       \* the store's cached listing pages: cache key -> page
    rreq,         \* the resource requests in flight, one per worker
    rhist,        \* history of the resource path (not program state)
    cstore,       \* the store's keys used through RedisClient: key -> raw string
    cret,         \* the outcome of the last RedisClient call
    protection,   \* articles.is_protected, protection_question, protection_answer
    dresp,        \* the last get_article call: its request and its response
    links,        \* a content string and the strip / refresh calls applied to it
    signer,       \* the clock, the signatures issued and the last verification
    signurl,      \* the clock and the calls of generate_qiniu_timestamp_url
    astore,       \* articles.content and cover, the settings and the last call
    likes,        \* article_likes, articles.like_count and the like calls in flight
    site,         \* site_info, the cached site_config and the calls in flight
    codes         \* the emailed reset code in the store and the calls in flight

viewVars == <<view_count, redis, req, sync, hist>>
resVars == <<res_rows, res_next_id, rversion, rpages, rreq, rhist>>
clientVars == <<cstore, cret>>
detailVars == <<protection, dresp>>
moreVars == <<signurl, astore, likes, site, codes>>
restVars == <<detailVars, links, signer, moreVars>>
vars == <<viewVars, resVars, clientVars, restVars>>

----------------------------------------------------------------------------
(* Bounds *)

MaxViewCalls == 4 \* get_article calls, incr calls and reconciliation passes
MaxResCalls == 4  \* create_resource, get_resources and delete_resource calls
MaxCounter == 7   \* RedisClient.incr is not called on a counter at this value
MaxParams == 2    \* query parameters of a URL in a content string
MaxOps == 3       \* strip and refresh calls applied to one content string
MaxTicks == 2     \* advances of the clock
MaxSigned == 1    \* signatures issued by get_private_download_url
MaxUrlCalls == 3  \* calls of generate_qiniu_timestamp_url that are compared
MaxLikeCalls == 3 \* like_article and unlike_article calls
MaxSiteCalls == 4 \* get_site_config and update_site_config calls
MaxCodeCalls == 3 \* forgot_password and reset_password calls

----------------------------------------------------------------------------
(* The parts that have no call in flight and no history *)

None == <<"<None>">>

SignUrlQuiet ==
    signurl = [base_url |-> <<>>, key |-> <<>>, now |-> 0, calls |-> {}]

NoArticleCall == [op |-> "none", code |-> 0, sent |-> <<>>, served |-> {}]

AStoreQuiet == astore = [enabled |-> FALSE, rows |-> <<>>, last |-> NoArticleCall]

\* who likes: a logged-in user (by id) or an anonymous client (by address)
Likers == {"user 7", "ip 10.0.0.1"}
LikeWorkers == {"k1", "k2"}
IdleLike(code) == [pc |-> "idle", code |-> code]      \* code: the last response

\* one article without likes, no call in flight
LikesQuiet ==
    likes = [rows |-> [l \in Likers |-> 0], like_count |-> 0,
             req |-> [w \in LikeWorkers |-> IdleLike(0)], calls |-> 0]

SiteWorkers == {"s1", "s2"}
IdleSite == [pc |-> "idle", returned |-> FALSE, value |-> 0, expected |-> 0]

\* the configuration as first saved (version 1), nothing cached (0), no call
SiteQuiet ==
    site = [db |-> 1, cache |-> 0, writer |-> "idle",
            req |-> [w \in SiteWorkers |-> IdleSite], calls |-> 0]

CodeWorkers == {"p1", "p2"}
CodeKey == "reset_password_code:a@b.c"
IdleCode(code) == [pc |-> "idle", code |-> code]      \* code: the last response

\* no code in the store, no call
CodesQuiet ==
    codes = [store |-> [k \in {CodeKey} |-> None], gen |-> 0, wins |-> <<>>,
             req |-> [w \in CodeWorkers |-> IdleCode(0)], calls |-> 0]

RestQuiet == SiteQuiet /\ CodesQuiet

MoreQuiet == SignUrlQuiet /\ AStoreQuiet /\ LikesQuiet /\ RestQuiet

----------------------------------------------------------------------------
(* Strings *)


Digits == {"0", "1", "2", "3", "4", "5", "6", "7", "8", "9"}

DigitVal(c) ==
    CASE c = "0" -> 0 [] c = "1" -> 1 [] c = "2" -> 2 [] c = "3" -> 3
      [] c = "4" -> 4 [] c = "5" -> 5 [] c = "6" -> 6 [] c = "7" -> 7
      [] c = "8" -> 8 [] c = "9" -> 9

DigitChar(d) ==
    CASE d = 0 -> "0" [] d = 1 -> "1" [] d = 2 -> "2" [] d = 3 -> "3"
      [] d = 4 -> "4" [] d = 5 -> "5" [] d = 6 -> "6" [] d = 7 -> "7"
      [] d = 8 -> "8" [] d = 9 -> "9"

\* str.isdigit(): non-empty and every character a digit
isdigit(s) == Len(s) > 0 /\ \A i \in 1..Len(s) : s[i] \in Digits

\* int(s) for a string of digits (leading zeros allowed); any other string raises
IntParses(s) == isdigit(s)

RECURSIVE StrToInt(_)
StrToInt(s) ==
    IF Len(s) = 0 THEN 0
    ELSE 10 * StrToInt(SubSeq(s, 1, Len(s) - 1)) + DigitVal(s[Len(s)])

\* str(n) for n >= 0
RECURSIVE IntToStr(_)
IntToStr(n) ==
    IF n < 10 THEN <<DigitChar(n)>>
    ELSE IntToStr(n \div 10) \o <<DigitChar(n % 10)>>

\* s.split(sep)
RECURSIVE split(_, _)
split(s, sep) ==
    IF \A i \in 1..Len(s) : s[i] # sep THEN <<s>>
    ELSE LET i == CHOOSE i \in 1..Len(s) :
                      s[i] = sep /\ \A j \in 1..(i - 1) : s[j] # sep
         IN  <<SubSeq(s, 1, i - 1)>> \o split(SubSeq(s, i + 1, Len(s)), sep)

\* Python truthiness of a value read from the store: None and "" are falsy,
\* every non-empty string is truthy
Truthy(v) == v # None /\ Len(v) > 0

----------------------------------------------------------------------------
(* Keys *)

ArticlePrefix == <<"a", "r", "t", "i", "c", "l", "e", ":">>
ViewsSuffix == <<":", "v", "i", "e", "w", "s">>

\* f"article:{article_id}:views"
ViewsKey(article_id) == ArticlePrefix \o IntToStr(article_id) \o ViewsSuffix

\* the glob "article:*:views" of scan_iter
MatchPattern(key) ==
    /\ Len(key) >= Len(ArticlePrefix) + Len(ViewsSuffix)
    /\ SubSeq(key, 1, Len(ArticlePrefix)) = ArticlePrefix
    /\ SubSeq(key, Len(key) - Len(ViewsSuffix) + 1, Len(key)) = ViewsSuffix

----------------------------------------------------------------------------
(* The durable store and the requests *)

ArticleIds == {1, 2, 7}          \* rows of the articles table
RequestIds == ArticleIds \cup {3}   \* 3 is an identifier with no row
Unpublished == {2}               \* rows with is_published = False
Workers == {"w1", "w2"}          \* request workers

is_published(a) == a \notin Unpublished

InitViewCount == [a \in ArticleIds |-> 10]
ExampleCounters == (1 :> <<"5">>) @@ (2 :> <<"0">>) @@ (7 :> <<"4", "2">>)
ViewKeys == {ViewsKey(a) : a \in ArticleIds}
KeyArticle(k) == CHOOSE a \in ArticleIds : ViewsKey(a) = k

IdleReq == [pc |-> "idle", article_id |-> 0, loaded |-> 0]
IdleSync == [pc |-> "idle", toScan |-> {}, updates |-> <<>>, done |-> 0]

\* the view-counter path before any call: the store holds no counter key, the
\* key of article 1, or the key of every article
ViewsStart ==
    /\ view_count = InitViewCount
    /\ \E present \in {{}, {1}, ArticleIds} :
          redis = [k \in ViewKeys |->
                     IF KeyArticle(k) \in present
                     THEN ExampleCounters[KeyArticle(k)] ELSE None]
    /\ req = [w \in Workers |-> IdleReq]
    /\ sync = IdleSync
    /\ hist = [reads |-> [a \in ArticleIds |-> 0],
               incrs |-> [a \in ArticleIds |-> 0],
               rets |-> [a \in ArticleIds |-> {}],
               calls |-> 0,
               passes |-> 0,
               commits |-> 0,
               discarded |-> 0,
               outcome |-> "none",
               redis0 |-> redis]

\* the view-counter path at rest: no counter key in the store
ViewsQuiet ==
    /\ view_count = InitViewCount
    /\ redis = [k \in ViewKeys |-> None]
    /\ req = [w \in Workers |-> IdleReq]
    /\ sync = IdleSync
    /\ hist = [reads |-> [a \in ArticleIds |-> 0],
               incrs |-> [a \in ArticleIds |-> 0],
               rets |-> [a \in ArticleIds |-> {}],
               calls |-> 0,
               passes |-> 0,
               commits |-> 0,
               discarded |-> 0,
               outcome |-> "none",
               redis0 |-> redis]

----------------------------------------------------------------------------
(* get_article: the read path up to the view-count increment *)

\* article = db.query(Article).filter(Article.id == article_id).first()
\* and the two 404 exits; otherwise the row is loaded into the session
get_article_query(w, article_id, is_admin) ==
    /\ req[w].pc = "idle"
    /\ hist.calls < MaxViewCalls
    /\ hist' = [hist EXCEPT !.calls = @ + 1]
    /\ IF article_id \notin ArticleIds
          THEN req' = req                                   \* 404
          ELSE IF ~is_published(article_id) /\ ~is_admin
          THEN req' = req                                   \* 404
          ELSE req' = [req EXCEPT ![w] =
                         [pc |-> "loaded", article_id |-> article_id,
                          loaded |-> view_count[article_id]]]
    /\ UNCHANGED <<view_count, redis, sync, resVars, clientVars, restVars>>

\* the rows the reconciliation session has updated and not yet committed
LockedRows == {sync.updates[i][1] : i \in 1..sync.done}

\* article.view_count += 1; db.commit(): the ORM writes the value computed
\* from the attribute it loaded (UPDATE articles SET view_count = <loaded + 1>)
get_article_commit(w) ==
    /\ req[w].pc = "loaded"
    /\ req[w].article_id \notin LockedRows
    /\ view_count' = [view_count EXCEPT ![req[w].article_id] = req[w].loaded + 1]
    /\ req' = [req EXCEPT ![w] = IdleReq]
    /\ hist' = [hist EXCEPT !.reads[req[w].article_id] = @ + 1]
    /\ UNCHANGED <<redis, sync, resVars, clientVars, restVars>>

\* the commit raises: logged, re-raised, nothing written
get_article_error(w) ==
    /\ req[w].pc = "loaded"
    /\ req' = [req EXCEPT ![w] = IdleReq]
    /\ UNCHANGED <<view_count, redis, sync, hist, resVars, clientVars, restVars>>

----------------------------------------------------------------------------
(* RedisClient.incr on a view-counter key *)

\* INCR of the store: an absent key is created at 1, an integer string is
\* incremented; any other value is an error of the store
IncrOk(v) == v = None \/ IntParses(v)

\* (mutant) a read-then-write increment whose write is lost: the value read is
\* what the call returns and what the key keeps
IncrValueStale(v) == IF v = None THEN 1 ELSE StrToInt(v)

IncrValue(v) == IF v = None THEN 1 ELSE StrToInt(v) + 1

\* (mutant) incr without its try/except: the store's error reaches the caller
RedisClient_incr_unguarded(store, key, up) ==
    IF up /\ IncrOk(store[key])
    THEN [store |-> [store EXCEPT ![key] = IntToStr(IncrValue(store[key]))],
          ret |-> IncrValue(store[key]), raised |-> FALSE]
    ELSE [store |-> store, ret |-> 0, raised |-> TRUE]

\* RedisClient.incr: the store's reply, or 0 when the call raised
\* (up = FALSE: the store is unreachable)
RedisClient_incr(store, key, up) ==
    IF up /\ IncrOk(store[key])
    THEN [store |-> [store EXCEPT ![key] = IntToStr(IncrValue(store[key]))],
          ret |-> IncrValue(store[key]), raised |-> FALSE]
    ELSE [store |-> store, ret |-> 0, raised |-> FALSE]

incr(key) ==
    /\ hist.calls < MaxViewCalls
    /\ \E up \in BOOLEAN :
          LET r == RedisClient_incr(redis, key, up) IN
          /\ redis' = r.store
          /\ hist' = IF r.ret = 0 THEN hist
                     ELSE [hist EXCEPT !.incrs[KeyArticle(key)] = @ + 1,
                                       !.rets[KeyArticle(key)] = @ \cup {r.ret},
                                       !.calls = @ + 1]
    /\ UNCHANGED <<view_count, req, sync, resVars, clientVars, restVars>>

----------------------------------------------------------------------------
(* sync_views_to_db: Idle -> Scanning -> Flushing -> Idle *)

\* updates[article_id] = count on the dict (kept in insertion order)
DictPut(d, k, v) ==
    IF \E i \in 1..Len(d) : d[i][1] = k
    THEN [i \in 1..Len(d) |-> IF d[i][1] = k THEN <<k, v>> ELSE d[i]]
    ELSE Append(d, <<k, v>>)

DictHas(d, k) == \E i \in 1..Len(d) : d[i][1] = k
DictGet(d, k) == d[CHOOSE i \in 1..Len(d) : d[i][1] = k][2]

\* the body of the scan loop for one key: parse the key, read its value,
\* record the update; a key or a value that does not parse is skipped
ScanKey(updates, key, value) ==
    LET parts == split(key, ":") IN
    IF Len(parts) = 3 /\ isdigit(parts[2])
    THEN IF Truthy(value)
         THEN IF IntParses(value)
              THEN DictPut(updates, StrToInt(parts[2]), StrToInt(value))
              ELSE updates            \* int() raises: logged, continue
         ELSE updates
    ELSE updates

\* (mutant) the pass goes on to the flush and the commit with no update
AfterScanAlwaysFlush(s) ==
    IF s.toScan # {} THEN s ELSE [s EXCEPT !.pc = "flushing"]

\* after the loop: "if not updates: return", else on to the flush
AfterScan(s) ==
    IF s.toScan # {} THEN s
    ELSE IF s.updates = <<>> THEN IdleSync
    ELSE [s EXCEPT !.pc = "flushing"]

\* the job starts: scan_iter enumerates the keys that match the pattern
sync_start ==
    /\ sync.pc = "idle"
    /\ hist.calls < MaxViewCalls
    /\ sync' = AfterScan([pc |-> "scanning",
                          toScan |-> {k \in DOMAIN redis :
                                        redis[k] # None /\ MatchPattern(k)},
                          updates |-> <<>>, done |-> 0])
    /\ hist' = [hist EXCEPT !.passes = @ + 1, !.calls = @ + 1,
                            !.outcome = IF sync'.pc = "idle" THEN "noop" ELSE "running"]
    /\ UNCHANGED <<view_count, redis, req, resVars, clientVars, restVars>>

\* (mutant) the scan loop without its inner try/except: a value that int()
\* rejects ends the pass in the outer handler
sync_scan_uncaught(key) ==
    /\ sync.pc = "scanning"
    /\ key \in sync.toScan
    /\ IF Truthy(redis[key]) /\ ~IntParses(redis[key])
       THEN /\ sync' = [pc |-> "idle", toScan |-> {}, updates |-> <<>>, done |-> 0]
            /\ hist' = [hist EXCEPT !.outcome = "failed"]
       ELSE /\ sync' = AfterScan([sync EXCEPT
                                      !.toScan = @ \ {key},
                                      !.updates = ScanKey(@, key, redis[key])])
            /\ hist' = [hist EXCEPT
                          !.outcome = IF sync'.pc = "idle" THEN "noop" ELSE @]
    /\ UNCHANGED <<view_count, redis, req, resVars, clientVars, restVars>>

\* one iteration of the scan loop: r.get(key) and the update of the dict
sync_scan(key) ==
    /\ sync.pc = "scanning"
    /\ key \in sync.toScan
    /\ sync' = AfterScan([sync EXCEPT
                            !.toScan = @ \ {key},
                            !.updates = ScanKey(@, key, redis[key])])
    /\ hist' = [hist EXCEPT !.outcome = IF sync'.pc = "idle" THEN "noop" ELSE @]
    /\ UNCHANGED <<view_count, redis, req, resVars, clientVars, restVars>>

\* (mutant) an autocommit session: each UPDATE is durable as it runs
sync_update_autocommit ==
    /\ sync.pc = "flushing"
    /\ sync.done < Len(sync.updates)
    /\ view_count' = [view_count EXCEPT ![sync.updates[sync.done + 1][1]] =
                                            sync.updates[sync.done + 1][2]]
    /\ sync' = [sync EXCEPT !.done = @ + 1]
    /\ UNCHANGED <<redis, req, hist, resVars, clientVars, restVars>>

\* one iteration of the flush loop: the UPDATE runs in the session's open
\* transaction; the committed rows do not change
sync_update ==
    /\ sync.pc = "flushing"
    /\ sync.done < Len(sync.updates)
    /\ sync' = [sync EXCEPT !.done = @ + 1]
    /\ UNCHANGED <<view_count, redis, req, hist, resVars, clientVars, restVars>>

\* (mutant) the guarded variant the comment in the flush loop considers:
\* write only when the cache count is greater than the durable count
FlushedIfGreater(rows, updates) ==
    [a \in DOMAIN rows |->
        IF DictHas(updates, a) /\ DictGet(updates, a) > rows[a]
        THEN DictGet(updates, a) ELSE rows[a]]

\* the rows as they are once the transaction's updates are committed
Flushed(rows, updates) ==
    [a \in DOMAIN rows |->
        IF DictHas(updates, a) THEN DictGet(updates, a) ELSE rows[a]]

\* db.commit(): every update of the pass becomes durable at once
sync_commit ==
    /\ sync.pc = "flushing"
    /\ sync.done = Len(sync.updates)
    /\ view_count' = Flushed(view_count, sync.updates)
    /\ sync' = IdleSync
    /\ hist' = [hist EXCEPT !.commits = @ + 1, !.outcome = "committed"]
    /\ UNCHANGED <<redis, req, resVars, clientVars, restVars>>

\* (mutant) no outer except: the exception leaves sync_views_to_db with the
\* pass where it stood
sync_fail_propagates ==
    /\ sync.pc \in {"scanning", "flushing"}
    /\ sync' = [sync EXCEPT !.pc = "raised"]
    /\ hist' = [hist EXCEPT !.discarded = sync.done, !.outcome = "failed"]
    /\ UNCHANGED <<view_count, redis, req, resVars, clientVars, restVars>>

\* an exception anywhere in the pass (the store, an UPDATE, the commit):
\* db.rollback(), db.close()
sync_fail ==
    /\ sync.pc \in {"scanning", "flushing"}
    /\ sync' = IdleSync
    /\ hist' = [hist EXCEPT !.discarded = sync.done, !.outcome = "failed"]
    /\ UNCHANGED <<view_count, redis, req, resVars, clientVars, restVars>>

----------------------------------------------------------------------------
(* The resources table and its versioned listing cache *)

ResourceKeys == {"a.png", "b.mp4"}       \* Resource.key of the uploads
media_type(key) == IF key = "a.png" THEN "image" ELSE "video"
NoType == "<None>"                       \* the query parameter type left out
Types == {NoType, "image"}
PageRequests == {<<1, 2>>}               \* (current, size)
ResWorkers == {"r1", "r2"}

IdleRes(msg) == [pc |-> "idle", msg |-> msg]   \* msg: the last response

HasKey(rows, key) == \E i \in 1..Len(rows) : rows[i].key = key
HasId(rows, id) == \E i \in 1..Len(rows) : rows[i].id = id
RowIds(rows) == {rows[i].id : i \in 1..Len(rows)}

\* the resource path at rest: an empty table and a store without the keys
ResQuiet ==
    /\ res_rows = <<>>
    /\ res_next_id = 1
    /\ rversion = None
    /\ rpages = <<>>
    /\ rreq = [w \in ResWorkers |-> IdleRes("")]
    /\ rhist = [calls |-> 0,
                created |-> {}, removed |-> {}, returned |-> 0]

\* create_resource: the lookup by key, and the "already exists" exit
create_check(w, key) ==
    /\ rreq[w].pc = "idle"
    /\ rhist.calls < MaxResCalls
    /\ rhist' = [rhist EXCEPT !.calls = @ + 1]
    /\ rreq' = [rreq EXCEPT ![w] =
                  IF HasKey(res_rows, key)
                  THEN IdleRes("Resource already exists")
                  ELSE [pc |-> "c_commit", key |-> key]]
    /\ UNCHANGED <<res_rows, res_next_id, rversion, rpages, viewVars, clientVars, restVars>>

\* db.add; db.commit; db.refresh: Resource.key is unique, so the INSERT of a
\* key another call has inserted meanwhile raises
create_commit(w) ==
    /\ rreq[w].pc = "c_commit"
    /\ IF HasKey(res_rows, rreq[w].key)
       THEN /\ rreq' = [rreq EXCEPT ![w] = IdleRes("error")]
            /\ UNCHANGED <<res_rows, res_next_id>>
       ELSE /\ res_rows' = Append(res_rows,
                                  [id |-> res_next_id, key |-> rreq[w].key])
            /\ res_next_id' = res_next_id + 1
            /\ rreq' = [rreq EXCEPT ![w] = [pc |-> "c_incr", id |-> res_next_id]]
    /\ UNCHANGED <<rversion, rpages, rhist, viewVars, clientVars, restVars>>

\* (mutant) the handler returns without invalidating the listing cache
create_no_incr(w) ==
    /\ rreq[w].pc = "c_incr"
    /\ rreq' = [rreq EXCEPT ![w] = IdleRes("Resource recorded")]
    /\ rhist' = [rhist EXCEPT !.created = @ \cup {rreq[w].id},
                              !.returned = @ + 1]
    /\ UNCHANGED <<res_rows, res_next_id, rversion, rpages, viewVars, clientVars, restVars>>

\* redis_client.get_client().incr("resources:list:version") and the return;
\* the call on the raw client raises when the store is unreachable
create_incr(w) ==
    /\ rreq[w].pc = "c_incr"
    /\ \E up \in BOOLEAN :
          IF up
          THEN /\ rversion' = IntToStr(IncrValue(rversion))
               /\ rreq' = [rreq EXCEPT ![w] = IdleRes("Resource recorded")]
               /\ rhist' = [rhist EXCEPT !.created = @ \cup {rreq[w].id},
                                         !.returned = @ + 1]
          ELSE /\ rreq' = [rreq EXCEPT ![w] = IdleRes("error")]
               /\ UNCHANGED <<rversion, rhist>>
    /\ UNCHANGED <<res_rows, res_next_id, rpages, viewVars, clientVars, restVars>>

\* type or 'all'
TypeOrAll(type) == IF type = NoType \/ type = "" THEN "all" ELSE type

\* f"resources:list:v{version}:{current}:{size}:{type or 'all'}"
CacheKey(version, current, size, type) ==
    <<version, current, size, TypeOrAll(type)>>

\* version = redis_client.get_client().get("resources:list:version") or "1"
VersionOrOne(v) == IF Truthy(v) THEN v ELSE <<"1">>

\* get_resources: the version is read on the raw client (it raises when the
\* store is unreachable) and the cache key is built.  mustSee (history): the
\* resources whose create_resource had returned when the request began
get_version(w, current, size, type) ==
    /\ rreq[w].pc = "idle"
    /\ rhist.calls < MaxResCalls
    /\ rhist' = [rhist EXCEPT !.calls = @ + 1]
    /\ \E up \in BOOLEAN :
          rreq' = [rreq EXCEPT ![w] =
             IF up
             THEN [pc |-> "g_cache",
                   cache_key |-> CacheKey(VersionOrOne(rversion), current, size, type),
                   current |-> current, size |-> size, type |-> type,
                   mustSee |-> rhist.created]
             ELSE IdleRes("error")]
    /\ UNCHANGED <<res_rows, res_next_id, rversion, rpages, viewVars, clientVars, restVars>>

\* cached_data = redis_client.get(cache_key); a cached page (a non-empty
\* dict) is what the handler returns; a failure of the store reads as a miss
get_cache(w) ==
    /\ rreq[w].pc = "g_cache"
    /\ \E up \in BOOLEAN :
          rreq' = [rreq EXCEPT ![w] =
             IF up /\ rreq[w].cache_key \in DOMAIN rpages
             THEN [pc |-> "g_hit", page |-> rpages[rreq[w].cache_key],
                   mustSee |-> rreq[w].mustSee]
             ELSE [@ EXCEPT !.pc = "g_query"]]
    /\ UNCHANGED <<res_rows, res_next_id, rversion, rpages, rhist, viewVars, clientVars, restVars>>

\* return ResponseModel(code=200, data=PagedData(**cached_data))
get_return_cached(w) ==
    /\ rreq[w].pc = "g_hit"
    /\ rreq' = [rreq EXCEPT ![w] = IdleRes("page")]
    /\ UNCHANGED <<res_rows, res_next_id, rversion, rpages, rhist, viewVars, clientVars, restVars>>

\* select ... where media_type = type order by created_at desc
\* offset (current - 1) * size limit size, and the count
Reverse(q) == [i \in 1..Len(q) |-> q[Len(q) + 1 - i]]
Matching(rows, type) ==
    LET Keep(r) == type = NoType \/ type = "" \/ media_type(r.key) = type
    IN  SelectSeq(rows, Keep)
QueryPage(rows, type, current, size) ==
    LET all == Reverse(Matching(rows, type))
        from == (current - 1) * size + 1
        to == IF current * size < Len(all) THEN current * size ELSE Len(all)
    IN  [records |-> SubSeq(all, from, to), total |-> Len(all),
         current |-> current, size |-> size,
         src |-> RowIds(rows)]  \* src (history): the rows the page was read from

\* the cache miss: the page is read from the table
get_query(w) ==
    /\ rreq[w].pc = "g_query"
    /\ rreq' = [rreq EXCEPT ![w] =
                  [pc |-> "g_set", cache_key |-> rreq[w].cache_key,
                   page |-> QueryPage(res_rows, rreq[w].type,
                                      rreq[w].current, rreq[w].size)]]
    /\ UNCHANGED <<res_rows, res_next_id, rversion, rpages, rhist, viewVars, clientVars, restVars>>

\* redis_client.set(cache_key, cache_value, expire=REDIS_CACHE_TTL) and the
\* return; a failure of the store is a no-op.  seen (history): the resources
\* whose create_resource had returned when the page was cached
get_set(w) ==
    /\ rreq[w].pc = "g_set"
    /\ \E up \in BOOLEAN :
          rpages' = IF up
                    THEN (rreq[w].cache_key :>
                            (rreq[w].page @@ [seen |-> rhist.created])) @@ rpages
                    ELSE rpages
    /\ rreq' = [rreq EXCEPT ![w] = IdleRes("page")]
    /\ UNCHANGED <<res_rows, res_next_id, rversion, rhist, viewVars, clientVars, restVars>>

\* a cached page reaches its TTL
expire_page(k) ==
    /\ k \in DOMAIN rpages
    /\ rpages' = [x \in DOMAIN rpages \ {k} |-> rpages[x]]
    /\ UNCHANGED <<res_rows, res_next_id, rversion, rreq, rhist, viewVars, clientVars, restVars>>

\* delete_resource: the lookup by id, and the 404 exit
delete_check(w, id) ==
    /\ rreq[w].pc = "idle"
    /\ rhist.calls < MaxResCalls
    /\ rhist' = [rhist EXCEPT !.calls = @ + 1]
    /\ rreq' = [rreq EXCEPT ![w] =
                  IF HasId(res_rows, id)
                  THEN [pc |-> "d_commit", id |-> id]
                  ELSE IdleRes("not found")]
    /\ UNCHANGED <<res_rows, res_next_id, rversion, rpages, viewVars, clientVars, restVars>>

\* db.delete(resource); db.commit(): raises when the row is already gone
delete_commit(w) ==
    /\ rreq[w].pc = "d_commit"
    /\ IF HasId(res_rows, rreq[w].id)
       THEN /\ res_rows' = LET Other(r) == r.id # rreq[w].id
                           IN  SelectSeq(res_rows, Other)
            /\ rreq' = [rreq EXCEPT ![w] = [@ EXCEPT !.pc = "d_incr"]]
            /\ rhist' = [rhist EXCEPT !.removed = @ \cup {rreq[w].id}]
       ELSE /\ rreq' = [rreq EXCEPT ![w] = IdleRes("error")]
            /\ UNCHANGED <<res_rows, rhist>>
    /\ UNCHANGED <<res_next_id, rversion, rpages, viewVars, clientVars, restVars>>

\* redis_client.get_client().incr("resources:list:version") and the return
delete_incr(w) ==
    /\ rreq[w].pc = "d_incr"
    /\ \E up \in BOOLEAN :
          IF up
          THEN /\ rversion' = IntToStr(IncrValue(rversion))
               /\ rreq' = [rreq EXCEPT ![w] = IdleRes("deleted")]
               /\ rhist' = [rhist EXCEPT !.returned = @ + 1]
          ELSE /\ rreq' = [rreq EXCEPT ![w] = IdleRes("error")]
               /\ UNCHANGED <<rversion, rhist>>
    /\ UNCHANGED <<res_rows, res_next_id, rpages, viewVars, clientVars, restVars>>


----------------------------------------------------------------------------
(* RedisClient: get, set, delete, incr over a store that can fail *)

ClientKeys == {"site_config", "counter"}

\* Python values, as <<type, text>>
PyNone == <<"None", <<>>>>
PyBool(b) == <<"bool", IF b THEN <<"T">> ELSE <<"F">>>>
PyInt(n) == <<"int", IntToStr(n)>>
PyStr(s) == <<"str", s>>
SetValues == {PyInt(3), PyStr(<<"o", "k">>), PyStr(<<"4">>)}
RawValues == {None, <<"5">>, <<"x">>, <<"0", "7">>}

Quote == "\""

\* json.dumps(value, default=..., ensure_ascii=False) of an int or a str
json_dumps(value) ==
    IF value[1] = "int" THEN value[2] ELSE <<Quote>> \o value[2] \o <<Quote>>

\* json.loads accepts a JSON number (no leading zero) or a quoted string
JsonParses(raw) ==
    \/ isdigit(raw) /\ (Len(raw) = 1 \/ raw[1] # "0")
    \/ Len(raw) >= 2 /\ raw[1] = Quote /\ raw[Len(raw)] = Quote
json_loads(raw) ==
    IF raw[1] = Quote THEN PyStr(SubSeq(raw, 2, Len(raw) - 1))
    ELSE PyInt(StrToInt(raw))

\* RedisClient.get: None for an absent key, the decoded JSON, the raw string
\* when it is no JSON; None when the call raised
RedisClient_get(store, key, up) ==
    [store |-> store, raised |-> FALSE,
     ret |-> IF ~up THEN PyNone
             ELSE IF store[key] = None THEN PyNone
             ELSE IF JsonParses(store[key]) THEN json_loads(store[key])
             ELSE PyStr(store[key])]

\* RedisClient.set: True, or False when the call raised
RedisClient_set(store, key, value, up) ==
    IF up
    THEN [store |-> [store EXCEPT ![key] = json_dumps(value)],
          raised |-> FALSE, ret |-> PyBool(TRUE)]
    ELSE [store |-> store, raised |-> FALSE, ret |-> PyBool(FALSE)]

\* RedisClient.delete: True, or False when the call raised
RedisClient_delete(store, key, up) ==
    IF up
    THEN [store |-> [store EXCEPT ![key] = None],
          raised |-> FALSE, ret |-> PyBool(TRUE)]
    ELSE [store |-> store, raised |-> FALSE, ret |-> PyBool(FALSE)]

\* the outcome of a call: failed when the store was unreachable or refused it
Outcome(op, r, failed) ==
    [op |-> op, failed |-> failed, raised |-> r.raised, value |-> r.ret,
     changed |-> r.store # cstore]

ClientQuiet ==
    /\ cstore = [k \in ClientKeys |-> None]
    /\ cret = [op |-> "none", failed |-> FALSE, raised |-> FALSE,
               value |-> PyNone, changed |-> FALSE]

ClientStart ==
    /\ cstore \in [ClientKeys -> RawValues]
    /\ cret = [op |-> "none", failed |-> FALSE, raised |-> FALSE,
               value |-> PyNone, changed |-> FALSE]

client_get(key) ==
    /\ \E up \in BOOLEAN :
          LET r == RedisClient_get(cstore, key, up) IN
          /\ cstore' = r.store
          /\ cret' = Outcome("get", r, ~up)
    /\ UNCHANGED <<viewVars, resVars, restVars>>

client_set(key, value) ==
    /\ \E up \in BOOLEAN :
          LET r == RedisClient_set(cstore, key, value, up) IN
          /\ cstore' = r.store
          /\ cret' = Outcome("set", r, ~up)
    /\ UNCHANGED <<viewVars, resVars, restVars>>

client_delete(key) ==
    /\ \E up \in BOOLEAN :
          LET r == RedisClient_delete(cstore, key, up) IN
          /\ cstore' = r.store
          /\ cret' = Outcome("delete", r, ~up)
    /\ UNCHANGED <<viewVars, resVars, restVars>>

client_incr(key) ==
    /\ IntParses(cstore[key]) => StrToInt(cstore[key]) < MaxCounter
    /\ \E up \in BOOLEAN :
          LET r == RedisClient_incr(cstore, key, up) IN
          /\ cstore' = r.store
          /\ cret' = [Outcome("incr", r, ~up \/ ~IncrOk(cstore[key]))
                        EXCEPT !.value = PyInt(r.ret)]
    /\ UNCHANGED <<viewVars, resVars, restVars>>

----------------------------------------------------------------------------
(* utils/qiniu.py: strip_qiniu_params and refresh_qiniu_params_in_content *)

Http == <<"h", "t", "t", "p", ":", "/", "/">>
Https == <<"h", "t", "t", "p", "s", ":", "/", "/">>

StartsWith(s, i, p) ==
    i + Len(p) - 1 <= Len(s) /\ SubSeq(s, i, i + Len(p) - 1) = p

\* the index of the first c in s at or after i, or 0
RECURSIVE IndexFrom(_, _, _)
IndexFrom(s, c, i) ==
    IF i > Len(s) THEN 0
    ELSE IF s[i] \in c THEN i
    ELSE IndexFrom(s, c, i + 1)

\* s.replace(old, "")
RECURSIVE remove(_, _)
remove(s, old) ==
    IF Len(s) = 0 THEN s
    ELSE IF StartsWith(s, 1, old) THEN remove(SubSeq(s, Len(old) + 1, Len(s)), old)
    ELSE <<s[1]>> \o remove(SubSeq(s, 2, Len(s)), old)

\* s.lstrip('/')
RECURSIVE lstrip(_)
lstrip(s) ==
    IF Len(s) > 0 /\ s[1] = "/" THEN lstrip(SubSeq(s, 2, Len(s))) ELSE s

\* the characters that end a match of [^\s"')\]]*
Delims == {" ", "\n", "\t", Quote, "'", ")", "]"}

\* the match of https?://<domain>[^\s"')\]]* that begins at i: the index after
\* its last character, or 0 when there is no match at i
MatchEnd(s, domain, i) ==
    LET after == IF StartsWith(s, i, Http \o domain) THEN i + Len(Http \o domain)
                 ELSE IF StartsWith(s, i, Https \o domain)
                      THEN i + Len(Https \o domain)
                 ELSE 0
        stop == IF after = 0 THEN 0 ELSE IndexFrom(s, Delims, after)
    IN  IF after = 0 THEN 0
        ELSE IF stop = 0 THEN Len(s) + 1 ELSE stop

\* the non-overlapping matches of the pattern, left to right, and the text
\* between them: a sequence of [url |-> BOOLEAN, text |-> string]
RECURSIVE Pieces(_, _, _)
Pieces(s, domain, i) ==
    IF i > Len(s) THEN <<>>
    ELSE LET e == MatchEnd(s, domain, i) IN
         IF e = 0
         THEN <<[url |-> FALSE, text |-> <<s[i]>>]>> \o Pieces(s, domain, i + 1)
         ELSE <<[url |-> TRUE, text |-> SubSeq(s, i, e - 1)]>> \o Pieces(s, domain, e)

\* urllib.parse.urlparse of a matched URL (no ";" parameters, no brackets)
urlparse(url) ==
    LET scheme == IF StartsWith(url, 1, Https) THEN SubSeq(Https, 1, 5)
                  ELSE SubSeq(Http, 1, 4)
        rest == SubSeq(url, Len(scheme) + 4, Len(url))
        n == IndexFrom(rest, {"/", "?", "#"}, 1)
        netloc == IF n = 0 THEN rest ELSE SubSeq(rest, 1, n - 1)
        tail == IF n = 0 THEN <<>> ELSE SubSeq(rest, n, Len(rest))
        h == IndexFrom(tail, {"#"}, 1)
        fragment == IF h = 0 THEN <<>> ELSE SubSeq(tail, h + 1, Len(tail))
        nofrag == IF h = 0 THEN tail ELSE SubSeq(tail, 1, h - 1)
        q == IndexFrom(nofrag, {"?"}, 1)
        query == IF q = 0 THEN <<>> ELSE SubSeq(nofrag, q + 1, Len(nofrag))
        path == IF q = 0 THEN nofrag ELSE SubSeq(nofrag, 1, q - 1)
    IN  [scheme |-> scheme, netloc |-> netloc, path |-> path,
         query |-> query, fragment |-> fragment]

\* urllib.parse.urlunparse
urlunparse(u) ==
    u.scheme \o <<":", "/", "/">> \o u.netloc
      \o (IF Len(u.path) > 0 /\ u.path[1] # "/" THEN <<"/">> ELSE <<>>) \o u.path
      \o (IF Len(u.query) > 0 THEN <<"?">> \o u.query ELSE <<>>)
      \o (IF Len(u.fragment) > 0 THEN <<"#">> \o u.fragment ELSE <<>>)

\* the characters quote_plus leaves as they are
Unreserved ==
    {"a", "b", "c", "d", "e", "f", "g", "h", "i", "j", "k", "l", "m", "n", "o",
     "p", "q", "r", "s", "t", "u", "v", "w", "x", "y", "z", "_", ".", "-", "~"}
       \cup Digits

\* the percent-escape of a reserved character
Escape(c) ==
    CASE c = "/" -> <<"%", "2", "F">> [] c = "?" -> <<"%", "3", "F">>
      [] c = "=" -> <<"%", "3", "D">> [] c = ":" -> <<"%", "3", "A">>
      [] c = "#" -> <<"%", "2", "3">> [] c = "&" -> <<"%", "2", "6">>
      [] c = "%" -> <<"%", "2", "5">> [] c = "+" -> <<"%", "2", "B">>
      [] c = " " -> <<"%", "2", "0">> [] c = "(" -> <<"%", "2", "8">>
      [] OTHER -> <<"%", "2", "9">>
Escaped == {"/", "?", "=", ":", "#", "&", "%", "+", " ", "(", ")"}

\* urllib.parse.quote(s, safe='')
RECURSIVE quote(_)
quote(s) ==
    IF Len(s) = 0 THEN s
    ELSE (IF s[1] \in Unreserved THEN <<s[1]>> ELSE Escape(s[1]))
           \o quote(SubSeq(s, 2, Len(s)))

\* urllib.parse.quote_plus
RECURSIVE quote_plus(_)
quote_plus(s) ==
    IF Len(s) = 0 THEN s
    ELSE (IF s[1] \in Unreserved THEN <<s[1]>>
          ELSE IF s[1] = " " THEN <<"+">>
          ELSE Escape(s[1])) \o quote_plus(SubSeq(s, 2, Len(s)))

\* urllib.parse.unquote after replace('+', ' '): a valid escape is decoded,
\* anything else is kept
RECURSIVE unquote_plus(_)
unquote_plus(s) ==
    IF Len(s) = 0 THEN s
    ELSE IF s[1] = "+" THEN <<" ">> \o unquote_plus(SubSeq(s, 2, Len(s)))
    ELSE IF s[1] = "%" /\ Len(s) >= 3
            /\ \E c \in Escaped : Escape(c) = SubSeq(s, 1, 3)
         THEN <<CHOOSE c \in Escaped : Escape(c) = SubSeq(s, 1, 3)>>
                \o unquote_plus(SubSeq(s, 4, Len(s)))
    ELSE <<s[1]>> \o unquote_plus(SubSeq(s, 2, Len(s)))

\* d[name].append(value) on the dict of parse_qs (kept in insertion order)
DictAppend(d, k, v) ==
    IF \E i \in 1..Len(d) : d[i][1] = k
    THEN [i \in 1..Len(d) |-> IF d[i][1] = k THEN <<k, Append(d[i][2], v)>> ELSE d[i]]
    ELSE Append(d, <<k, <<v>>>>)

\* urllib.parse.parse_qs: the fields between "&", each split at its first "=";
\* a field without "=" or with a blank value is dropped
RECURSIVE parse_fields(_, _)
parse_fields(fields, d) ==
    IF Len(fields) = 0 THEN d
    ELSE LET f == fields[1]
             e == IndexFrom(f, {"="}, 1)
             name == SubSeq(f, 1, e - 1)
             value == SubSeq(f, e + 1, Len(f))
         IN  parse_fields(Tail(fields),
                IF e = 0 \/ Len(value) = 0 THEN d
                ELSE DictAppend(d, unquote_plus(name), unquote_plus(value)))
parse_qs(query) == parse_fields(split(query, "&"), <<>>)

\* del query_params[name]
DictDel(d, k) == LET Keep(e) == e[1] # k IN SelectSeq(d, Keep)

\* urllib.parse.urlencode(query_params, doseq=True)
RECURSIVE encode_values(_, _)
encode_values(k, vs) ==
    IF Len(vs) = 0 THEN <<>>
    ELSE <<quote_plus(k) \o <<"=">> \o quote_plus(vs[1])>> \o encode_values(k, Tail(vs))
RECURSIVE encode_items(_)
encode_items(d) ==
    IF Len(d) = 0 THEN <<>>
    ELSE encode_values(d[1][1], d[1][2]) \o encode_items(Tail(d))
RECURSIVE join(_, _)
join(parts, sep) ==
    IF Len(parts) = 0 THEN <<>>
    ELSE IF Len(parts) = 1 THEN parts[1]
    ELSE parts[1] \o <<sep>> \o join(Tail(parts), sep)
urlencode(d) == join(encode_items(d), "&")

SignName == <<"s", "i", "g", "n">>
TName == <<"t">>

\* (mutant) "elif 't' in query_params": one of the two parameters is removed
clean_url_one_param(full_url) ==
    LET parsed == urlparse(full_url)
        all == parse_qs(parsed.query)
        query_params == IF \E i \in 1..Len(all) : all[i][1] = SignName
                        THEN DictDel(all, SignName) ELSE DictDel(all, TName)
    IN  urlunparse([parsed EXCEPT !.query = urlencode(query_params)])

\* the URL without its sign and t query parameters
clean_url(full_url) ==
    LET parsed == urlparse(full_url)
        query_params == DictDel(DictDel(parse_qs(parsed.query), SignName), TName)
    IN  urlunparse([parsed EXCEPT !.query = urlencode(query_params)])

\* hashlib.md5(...).hexdigest(): a stand-in without collisions, the
\* hexadecimal codes of the characters of the input
HexCode(c) ==
    CASE c = "a" -> <<"6", "1">> [] c = "b" -> <<"6", "2">> [] c = "c" -> <<"6", "3">>
      [] c = "d" -> <<"6", "4">> [] c = "e" -> <<"6", "5">> [] c = "f" -> <<"6", "6">>
      [] c = "g" -> <<"6", "7">> [] c = "h" -> <<"6", "8">> [] c = "i" -> <<"6", "9">>
      [] c = "j" -> <<"6", "a">> [] c = "k" -> <<"6", "b">> [] c = "l" -> <<"6", "c">>
      [] c = "m" -> <<"6", "d">> [] c = "n" -> <<"6", "e">> [] c = "o" -> <<"6", "f">>
      [] c = "p" -> <<"7", "0">> [] c = "q" -> <<"7", "1">> [] c = "r" -> <<"7", "2">>
      [] c = "s" -> <<"7", "3">> [] c = "t" -> <<"7", "4">> [] c = "u" -> <<"7", "5">>
      [] c = "v" -> <<"7", "6">> [] c = "w" -> <<"7", "7">> [] c = "x" -> <<"7", "8">>
      [] c = "y" -> <<"7", "9">> [] c = "z" -> <<"7", "a">>
      [] c \in Digits -> <<"3", c>>
      [] c = "-" -> <<"2", "d">> [] c = "." -> <<"2", "e">> [] c = "/" -> <<"2", "f">>
      [] c = "_" -> <<"5", "f">> [] c = "%" -> <<"2", "5">>
      [] OTHER -> <<"3", "f">>
RECURSIVE md5_hexdigest(_)
md5_hexdigest(s) ==
    IF Len(s) = 0 THEN <<>> ELSE HexCode(s[1]) \o md5_hexdigest(Tail(s))

\* (mutant) only the last hexadecimal digit of the expiry time
hex_last_digit(n) ==
    LET d == n % 16 IN
    IF d < 10 THEN <<DigitChar(d)>>
    ELSE <<CASE d = 10 -> "a" [] d = 11 -> "b" [] d = 12 -> "c"
             [] d = 13 -> "d" [] d = 14 -> "e" [] OTHER -> "f">>

\* format(expire_time, 'x')
RECURSIVE hex(_)
hex(n) ==
    LET d == n % 16
        last == IF d < 10 THEN <<DigitChar(d)>>
                ELSE <<CASE d = 10 -> "a" [] d = 11 -> "b" [] d = 12 -> "c"
                         [] d = 13 -> "d" [] d = 14 -> "e" [] OTHER -> "f">>
    IN  IF n < 16 THEN last ELSE hex(n \div 16) \o last

\* generate_qiniu_timestamp_url(base_url, key, timestamp_key, expire_seconds)
\* at the expiry time expire_time = int(time.time()) + expire_seconds
generate_qiniu_timestamp_url(base_url, key, timestamp_key, expire_time) ==
    LET t == hex(expire_time)
        path == IF StartsWith(key, 1, <<"/">>) THEN key ELSE <<"/">> \o key
        path_parts == split(path, "/")
        encoded_path == join([i \in 1..Len(path_parts) |-> quote(path_parts[i])], "/")
        sign == md5_hexdigest(timestamp_key \o encoded_path \o t)
        separator == IF IndexFrom(base_url, {"?"}, 1) # 0 THEN "&" ELSE "?"
    IN  base_url \o <<separator>> \o SignName \o <<"=">> \o sign
          \o <<"&">> \o TName \o <<"=">> \o t

\* routers/upload.py has its own generate_qiniu_timestamp_url, without the
\* try / except of the one in utils/qiniu.py
upload_generate_qiniu_timestamp_url(base_url, key, timestamp_key, expire_time) ==
    LET t == hex(expire_time)
        path == IF ~StartsWith(key, 1, <<"/">>) THEN <<"/">> \o key ELSE key
        path_parts == split(path, "/")
        encoded_path == join([i \in 1..Len(path_parts) |-> quote(path_parts[i])], "/")
        sign == md5_hexdigest(timestamp_key \o encoded_path \o t)
    IN  IF IndexFrom(base_url, {"?"}, 1) # 0
        THEN base_url \o <<"&">> \o SignName \o <<"=">> \o sign
               \o <<"&">> \o TName \o <<"=">> \o t
        ELSE base_url \o <<"?">> \o SignName \o <<"=">> \o sign
               \o <<"&">> \o TName \o <<"=">> \o t

RECURSIVE concat(_)
concat(pieces) ==
    IF Len(pieces) = 0 THEN <<>> ELSE pieces[1] \o concat(Tail(pieces))

\* qiniu_domain.replace("http://", "").replace("https://", "")
bare_domain(qiniu_domain) == remove(remove(qiniu_domain, Http), Https)

\* (mutant) the field is stored as it was sent
strip_qiniu_params_skipped(content_in, qiniu_domain) == content_in

strip_qiniu_params(content_in, qiniu_domain) ==
    IF Len(content_in) = 0 \/ Len(qiniu_domain) = 0 THEN content_in
    ELSE LET ps == Pieces(content_in, bare_domain(qiniu_domain), 1) IN
         concat([i \in 1..Len(ps) |->
                    IF ps[i].url THEN clean_url(ps[i].text) ELSE ps[i].text])

\* the replacer of refresh_qiniu_params_in_content
refreshed_url(full_url, timestamp_key, expire_time) ==
    LET key == lstrip(urlparse(full_url).path) IN
    IF Len(key) = 0 THEN full_url
    ELSE generate_qiniu_timestamp_url(clean_url(full_url), key,
                                      timestamp_key, expire_time)

refresh_qiniu_params_in_content(content_in, qiniu_domain, timestamp_key, expire_time) ==
    IF Len(content_in) = 0 \/ Len(qiniu_domain) = 0 \/ Len(timestamp_key) = 0
    THEN content_in
    ELSE LET ps == Pieces(content_in, bare_domain(qiniu_domain), 1) IN
         concat([i \in 1..Len(ps) |->
                    IF ps[i].url
                    THEN refreshed_url(ps[i].text, timestamp_key, expire_time)
                    ELSE ps[i].text])

\* the content strings the calls are applied to: one URL on the provider
\* domain, alone or inside a markdown link that is followed by a second URL
ProviderDomain == <<"c", ".", "i", "o">>
Domains == {<<>>, Http \o ProviderDomain}
Paths == {<<>>, <<"/", "k">>}
Params ==
    {<<"s", "i", "g", "n", "=", "1">>, <<"t", "=", "2">>, <<"k", "=", "v">>,
     <<"k", "=">>, <<"x", "=", "a", "/", "b">>}
Fragments == {<<>>, <<"#", "f">>}
Queries == UNION {[1..n -> Params] : n \in 0..MaxParams}
UrlOf(path, q, fragment) ==
    Http \o ProviderDomain \o path
      \o (IF Len(q) = 0 THEN <<>> ELSE <<"?">> \o join(q, "&")) \o fragment
SecondUrl == Https \o ProviderDomain \o <<"/", "k", "?", "t", "=", "2">>
Contents ==
    {UrlOf(p, q, f) : p \in Paths, q \in Queries, f \in Fragments}
      \cup {<<"(">> \o UrlOf(p, q, f) \o <<")", " ">> \o SecondUrl :
              p \in Paths, q \in Queries, f \in Fragments}

TimestampKey == <<"s", "e", "c">>      \* settings.QINIU_TIMESTAMP_KEY

LinksQuiet ==
    links = [domain |-> <<>>, trace |-> <<<<>>>>, ops |-> <<>>, clock |-> 1]

LinksStart ==
    \E d \in Domains, c \in Contents :
        links = [domain |-> d, trace |-> <<c>>, ops |-> <<>>, clock |-> 1]

Current == links.trace[Len(links.trace)]

----------------------------------------------------------------------------
(* routers/upload.py: generate_signed_key, verify_signed_key, get_signed_url *)

URL_SIGN_SECRET ==
    <<"m", "a", "r", "t", "i", "n", "_", "b", "l", "o", "g", "_", "2", "0", "2",
      "4", "_", "s", "e", "c", "r", "e", "t", "_", "k", "e", "y">>

Window == 3600

\* md5(f"{key}-{timestamp}-{URL_SIGN_SECRET}").hexdigest()
generate_signed_key(key, timestamp) ==
    md5_hexdigest(key \o <<"-">> \o IntToStr(timestamp) \o <<"-">> \o URL_SIGN_SECRET)

\* (mutant) a verification that accepts any signature
verify_signed_key_any(key, timestamp, sign) == TRUE

verify_signed_key(key, timestamp, sign) ==
    sign = generate_signed_key(key, timestamp)

\* get_signed_url(key, t, sign) at the time current_time: the status of the
\* response and its detail
get_signed_url_status(key, t, sign, current_time, is_qiniu_enabled) ==
    IF ~verify_signed_key(key, t, sign) THEN <<403, "signature">>
    ELSE IF current_time - t > Window THEN <<403, "expired">>
    ELSE IF ~is_qiniu_enabled THEN <<501, "not configured">>
    ELSE <<200, "ok">>

SignKeys == {<<"a">>, <<"b", "-", "1">>}
BadSign == <<"0", "0">>
Ticks == {1, 3600}                   \* seconds that pass between two calls

NoCall == [called |-> FALSE, key |-> <<>>, t |-> 0, sign |-> <<>>, now |-> 0,
           status |-> <<0, "">>]

SignerQuiet ==
    signer = [now |-> 0, ticks |-> 0, enabled |-> FALSE, issued |-> {},
              last |-> NoCall]

SignerStart ==
    \E e \in BOOLEAN :
        signer = [now |-> 0, ticks |-> 0, enabled |-> e, issued |-> {},
                  last |-> NoCall]

\* time passes
tick(d) ==
    /\ signer.ticks < MaxTicks
    /\ signer' = [signer EXCEPT !.now = @ + d, !.ticks = @ + 1]
    /\ UNCHANGED <<viewVars, resVars, clientVars, detailVars, links, moreVars>>

\* get_private_download_url(key): timestamp = int(time.time()) and
\* sign = generate_signed_key(key, timestamp); without the provider settings
\* the response carries the empty signature. accepted and expired (history)
\* tell what happened to key and timestamp presented with their signature.
get_private_download_url(key) ==
    /\ Cardinality(signer.issued) < MaxSigned
    /\ \A i \in signer.issued : ~(i.key = key /\ i.t = signer.now)
    /\ signer' = [signer EXCEPT !.issued = @ \cup
                    {[key |-> key, t |-> signer.now,
                      sign |-> IF signer.enabled
                               THEN generate_signed_key(key, signer.now)
                               ELSE <<>>,
                      accepted |-> FALSE, expired |-> FALSE]}]
    /\ UNCHANGED <<viewVars, resVars, clientVars, detailVars, links, moreVars>>

\* get_signed_url(key, t, sign) with the timestamp of a response i of
\* get_private_download_url
get_signed_url(key, i, sign) ==
    LET st == get_signed_url_status(key, i.t, sign, signer.now, signer.enabled)
        own == key = i.key /\ sign = generate_signed_key(key, i.t)
        j == [i EXCEPT !.accepted = @ \/ (own /\ st[1] # 403),
                       !.expired = @ \/ (own /\ st = <<403, "expired">>)]
    IN
    /\ i \in signer.issued
    /\ signer' = [signer EXCEPT
                    !.last = [called |-> TRUE, key |-> key, t |-> i.t, sign |-> sign,
                              now |-> signer.now, status |-> st],
                    !.issued = (@ \ {i}) \cup {j}]
    /\ UNCHANGED <<viewVars, resVars, clientVars, detailVars, links, moreVars>>

----------------------------------------------------------------------------
(* get_article: the whole handler, one call at a time, and its response *)

\* the attributes class Article maps (columns and relationships)
ArticleColumns ==
    {"id", "title", "summary", "content", "cover", "author_id", "category_id",
     "view_count", "like_count", "comment_count", "is_published", "is_top",
     "is_recommend", "created_at", "updated_at", "category", "tags", "comments"}

\* the columns the migration adds to the table articles
ProtectionColumns == {"is_protected", "protection_question", "protection_answer"}

\* article.<name> on an instance loaded by the session: an attribute the class
\* does not map raises AttributeError
HasAttr(name) == name \in ArticleColumns

\* Python truthiness of a value
PyTruthy(v) == v \notin {PyNone, PyBool(FALSE), PyStr(<<>>), PyInt(0)}

Question == PyStr(<<"2", "+", "2", "?">>)
Answers == {PyNone, PyStr(<<>>), PyStr(<<"4">>), PyStr(<<"5">>)}   \* the query parameter answer
Placeholder == PyStr(<<"<protected: answer the question to read>">>)   \* the fixed text
content(a) == PyStr(<<"body of article ", IntToStr(a)[1]>>)

Unprotected ==
    [is_protected |-> PyBool(FALSE), protection_question |-> PyNone,
     protection_answer |-> PyNone]
Protected(answer) ==
    [is_protected |-> PyBool(TRUE), protection_question |-> Question,
     protection_answer |-> answer]

\* the rows of the table: article 1 is open, articles 2 and 7 are protected
ProtectionTables ==
    {(1 :> Unprotected) @@ (2 :> Protected(PyStr(<<"4">>))) @@ (7 :> Protected(a)) :
        a \in {PyNone, PyStr(<<>>), PyStr(<<"4">>)}}

NoData ==
    [present |-> FALSE, content |-> PyNone, viewCount |-> 0,
     is_protected |-> PyNone, protection_question |-> PyNone]

\* ResponseModel(code=404, msg=<the article does not exist>)
NotFound == [code |-> 404, msg |-> "article does not exist", data |-> NoData]

\* the exception is logged and re-raised: the framework answers 500
InternalError == [code |-> 500, msg |-> "Internal Server Error", data |-> NoData]

\* show_content: the permission check on a protected article
show_content(row, is_admin, answer) ==
    IF PyTruthy(row.is_protected)
    THEN IF is_admin THEN TRUE
         ELSE PyTruthy(answer) /\ answer = row.protection_answer
    ELSE TRUE

\* ResponseModel(code=..., msg=..., data=ArticleDetail(...)); with the default
\* settings (QINIU_TIMESTAMP_ENABLED = False) the links are not refreshed
ArticleDetail(article_id, row, count, show) ==
    [code |-> IF show THEN 200 ELSE 403,
     msg |-> IF show THEN "success" ELSE "protected",
     data |-> [present |-> TRUE,
               content |-> IF show THEN content(article_id) ELSE Placeholder,
               viewCount |-> count,
               is_protected |-> PyBool(PyTruthy(row.is_protected)),
               protection_question |-> IF PyTruthy(row.is_protected)
                                       THEN row.protection_question ELSE PyNone]]

\* the part of the handler after the view-count commit
get_article_detail(article_id, row, count, is_admin, answer) ==
    IF ~HasAttr("is_protected") THEN InternalError
    ELSE ArticleDetail(article_id, row, count, show_content(row, is_admin, answer))

DetailQuiet ==
    /\ protection = (1 :> Unprotected) @@ (2 :> Unprotected) @@ (7 :> Unprotected)
    /\ dresp = [called |-> FALSE, article_id |-> 0, is_admin |-> FALSE,
                answer |-> PyNone, resp |-> NotFound]

DetailStart ==
    /\ protection \in ProtectionTables
    /\ dresp = [called |-> FALSE, article_id |-> 0, is_admin |-> FALSE,
                answer |-> PyNone, resp |-> NotFound]

\* get_article(article_id, answer) by a requester who is or is not an admin
get_article(article_id, is_admin, answer) ==
    /\ hist.calls < MaxViewCalls
    /\ hist' = [hist EXCEPT !.calls = @ + 1]
    /\ IF article_id \notin ArticleIds \/ (~is_published(article_id) /\ ~is_admin)
       THEN /\ dresp' = [called |-> TRUE, article_id |-> article_id,
                         is_admin |-> is_admin, answer |-> answer,
                         resp |-> NotFound]
            /\ UNCHANGED view_count
       ELSE /\ view_count' = [view_count EXCEPT ![article_id] = @ + 1]
            /\ dresp' = [called |-> TRUE, article_id |-> article_id,
                         is_admin |-> is_admin, answer |-> answer,
                         resp |-> get_article_detail(article_id,
                                     protection[article_id],
                                     view_count[article_id] + 1,
                                     is_admin, answer)]
    /\ UNCHANGED <<redis, req, sync, protection, links, signer, moreVars, resVars, clientVars>>

DetailInit == ViewsQuiet /\ ResQuiet /\ ClientQuiet /\ DetailStart /\ LinksQuiet /\ SignerQuiet /\ MoreQuiet

DetailNext ==
    \E a \in RequestIds, is_admin \in BOOLEAN, answer \in Answers :
        get_article(a, is_admin, answer)

SpecDetail == DetailInit /\ [][DetailNext]_vars

----------------------------------------------------------------------------
(* Claims about the article detail, checked under SpecDetail *)

Exists == dresp.article_id \in ArticleIds
Readable == Exists /\ (is_published(dresp.article_id) \/ dresp.is_admin)
IsProtected == PyTruthy(protection[dresp.article_id].is_protected)
StoredAnswer == protection[dresp.article_id].protection_answer
AnswerMatches == dresp.answer # PyNone /\ dresp.answer = StoredAnswer
Visible ==
    /\ dresp.resp.data.present
    /\ dresp.resp.data.content = content(dresp.article_id)

\* C12: to a requester who is no admin an unpublished article is answered
\* exactly as an identifier without a row (404, the same message, no data);
\* an admin is answered with the detail view.
C12_UnpublishedIsNotFound ==
    dresp.called
    => /\ ~Exists => dresp.resp = NotFound
       /\ (Exists /\ ~is_published(dresp.article_id) /\ ~dresp.is_admin)
          => dresp.resp = NotFound
       /\ (Exists /\ ~is_published(dresp.article_id) /\ dresp.is_admin)
          => (dresp.resp.code = 200 /\ dresp.resp.data.present)

\* C13: for an existing, readable article the content is visible exactly
\* when the article is not protected, or the requester is an admin, or the
\* supplied answer equals the stored answer.
C13_VisibleIffAllowed ==
    (dresp.called /\ Readable)
    => (Visible <=> (~IsProtected \/ dresp.is_admin \/ AnswerMatches))

\* C14: a protected article asked for by a non-admin without the matching
\* answer is answered with a code other than 200, the placeholder and the
\* question; with the exact stored answer it is answered 200 and the body.
C14_GateResponse ==
    (dresp.called /\ Readable /\ IsProtected /\ ~dresp.is_admin)
    => /\ ~AnswerMatches
          => /\ dresp.resp.code = 403
             /\ dresp.resp.data.content = Placeholder
             /\ dresp.resp.data.protection_question
                   = protection[dresp.article_id].protection_question
       /\ AnswerMatches => (dresp.resp.code = 200 /\ Visible)

\* C15: the detail view carries protection_question only when the article is
\* protected and its content is not shown; the detail view of an unprotected
\* article, or of a protected article shown to an admin or after the right
\* answer, carries no protection_question.
C15_QuestionOnlyWhenUnresolved ==
    (dresp.called /\ Readable)
    => /\ dresp.resp.data.protection_question # PyNone
          => (IsProtected /\ ~Visible)
       /\ (~IsProtected \/ dresp.is_admin \/ AnswerMatches)
          => (dresp.resp.data.present
              /\ dresp.resp.data.protection_question = PyNone)

----------------------------------------------------------------------------

ClientInit == ClientStart /\ ViewsQuiet /\ ResQuiet /\ DetailQuiet /\ LinksQuiet /\ SignerQuiet /\ MoreQuiet

ClientNext ==
    \/ \E k \in ClientKeys : client_get(k)
    \/ \E k \in ClientKeys, v \in SetValues : client_set(k, v)
    \/ \E k \in ClientKeys : client_delete(k)
    \/ \E k \in ClientKeys : client_incr(k)

SpecClient == ClientInit /\ [][ClientNext]_vars

ResInit == ResQuiet /\ ViewsQuiet /\ ClientQuiet /\ DetailQuiet /\ LinksQuiet /\ SignerQuiet /\ MoreQuiet

ResNext ==
    \/ \E w \in ResWorkers, key \in ResourceKeys : create_check(w, key)
    \/ \E w \in ResWorkers : create_commit(w)
    \/ \E w \in ResWorkers : create_incr(w)
    \/ \E w \in ResWorkers, p \in PageRequests, type \in Types :
          get_version(w, p[1], p[2], type)
    \/ \E w \in ResWorkers : get_cache(w)
    \/ \E w \in ResWorkers : get_return_cached(w)
    \/ \E w \in ResWorkers : get_query(w)
    \/ \E w \in ResWorkers : get_set(w)
    \/ \E k \in DOMAIN rpages : expire_page(k)
    \/ \E w \in ResWorkers, id \in 1..MaxResCalls : delete_check(w, id)
    \/ \E w \in ResWorkers : delete_commit(w)
    \/ \E w \in ResWorkers : delete_incr(w)

SpecRes == ResInit /\ [][ResNext]_vars

----------------------------------------------------------------------------
(* The calls on a content string *)

\* content = strip_qiniu_params(content, settings.QINIU_DOMAIN)
apply_strip ==
    /\ Len(links.ops) < MaxOps
    /\ links' = [links EXCEPT
                   !.trace = Append(@, strip_qiniu_params(Current, links.domain)),
                   !.ops = Append(@, "strip")]
    /\ UNCHANGED <<viewVars, resVars, clientVars, detailVars, signer, moreVars>>

\* content = refresh_qiniu_params_in_content(content, domain, key, expire) at
\* a later time than the calls before it
apply_refresh ==
    /\ Len(links.ops) < MaxOps
    /\ links' = [links EXCEPT
                   !.trace = Append(@, refresh_qiniu_params_in_content(
                                          Current, links.domain, TimestampKey,
                                          links.clock)),
                   !.ops = Append(@, "refresh"),
                   !.clock = @ + 1]
    /\ UNCHANGED <<viewVars, resVars, clientVars, detailVars, signer, moreVars>>

LinksInit == ViewsQuiet /\ ResQuiet /\ ClientQuiet /\ DetailQuiet /\ LinksStart /\ SignerQuiet /\ MoreQuiet

LinksNext == apply_strip \/ apply_refresh

SpecLinks == LinksInit /\ [][LinksNext]_vars

----------------------------------------------------------------------------
(* Claims about the link functions, checked under SpecLinks *)

\* C18: strip_qiniu_params is idempotent: a second call right after a first
\* returns the content the first returned.
C18_StripIdempotent ==
    \A i \in 1..(Len(links.ops) - 1) :
        (links.ops[i] = "strip" /\ links.ops[i + 1] = "strip")
        => links.trace[i + 2] = links.trace[i + 1]

\* C18 witness: a first call removed parameters and a second changed nothing.
C18_StrippedTwice ==
    /\ links.ops = <<"strip", "strip">>
    /\ links.trace[2] # links.trace[1]
    /\ links.trace[3] = links.trace[2]

\* the number of places where the URL text carries the parameter name
ParamCount(url, name) ==
    Cardinality({i \in 1..Len(url) :
                   url[i] \in {"?", "&"} /\ StartsWith(url, i + 1, name \o <<"=">>)})

\* C19: after strip and two refresh calls every URL on the provider domain
\* carries the sign parameter once and the t parameter once (a URL without an
\* object key is not signed).
C19_OneSignOneT ==
    links.ops = <<"strip", "refresh", "refresh">> /\ Len(links.domain) > 0
    => LET ps == Pieces(Current, bare_domain(links.domain), 1) IN
       \A i \in 1..Len(ps) :
           ps[i].url
           => /\ ParamCount(ps[i].text, SignName) <= 1
              /\ ParamCount(ps[i].text, TName) <= 1
              /\ Len(lstrip(urlparse(ps[i].text).path)) > 0
                 => /\ ParamCount(ps[i].text, SignName) = 1
                    /\ ParamCount(ps[i].text, TName) = 1

----------------------------------------------------------------------------
(* The calls on the signed keys *)

SignerInit ==
    ViewsQuiet /\ ResQuiet /\ ClientQuiet /\ DetailQuiet /\ LinksQuiet /\ SignerStart
    /\ MoreQuiet

SignerNext ==
    \/ \E d \in Ticks : tick(d)
    \/ \E k \in SignKeys : get_private_download_url(k)
    \/ \E k \in SignKeys, i \in signer.issued :
          \E sign \in {i.sign, generate_signed_key(k, i.t), BadSign} :
             get_signed_url(k, i, sign)

SpecSigner == SignerInit /\ [][SignerNext]_vars

----------------------------------------------------------------------------
(* Claims about the signed keys, checked under SpecSigner *)

\* C20: a verification passes exactly when the signature is sign(key, t) and
\* now - t is at most 3600 seconds: it passes at the time of signing, it
\* fails from the first second after the window, a key and timestamp that
\* failed for their age are not accepted at any later call, and any other
\* digest fails at every time.
C20_SignatureWindow ==
    /\ signer.last.called
       => ( signer.last.status[1] # 403
            <=> ( /\ signer.last.sign
                       = generate_signed_key(signer.last.key, signer.last.t)
                  /\ signer.last.now - signer.last.t <= Window ) )
    /\ \A i \in signer.issued :
          /\ i.expired => signer.now - i.t > Window
          /\ ( /\ i.expired
               /\ signer.last.called
               /\ signer.last.key = i.key
               /\ signer.last.t = i.t
               /\ signer.last.now = signer.now )
             => signer.last.status[1] = 403

\* C20 witness: a signature that was accepted is refused in the first second
\* after its window.
C20_RefusedAfterWindow ==
    /\ signer.last.status = <<403, "expired">>
    /\ signer.last.now - signer.last.t = Window + 1
    /\ \E i \in signer.issued :
          /\ i.key = signer.last.key /\ i.t = signer.last.t
          /\ i.sign = signer.last.sign
          /\ i.accepted /\ i.expired

----------------------------------------------------------------------------
(* The calls of generate_qiniu_timestamp_url *)

SignBaseUrls ==
    {UrlOf(<<"/", "k">>, <<>>, <<>>), UrlOf(<<"/", "k">>, <<<<"k", "=", "v">>>>, <<>>)}
SignUrlKeys == {<<"k">>, <<"/", "k">>, <<"a", " ", "b">>}
ExpireSeconds == {1, 2, 3600}        \* 3600: the default of expire_seconds

SignUrlStart ==
    \E b \in SignBaseUrls, k \in SignUrlKeys :
        signurl = [base_url |-> b, key |-> k, now |-> 0, calls |-> {}]

\* time passes
signurl_tick ==
    /\ signurl.now < MaxTicks
    /\ signurl' = [signurl EXCEPT !.now = @ + 1]
    /\ UNCHANGED <<viewVars, resVars, clientVars, detailVars, links, signer, astore, likes, site, codes>>

\* utils/qiniu.py: generate_qiniu_timestamp_url(base_url, key, timestamp_key,
\* expire_seconds) with expire_time = int(time.time()) + expire_seconds
call_utils_generate(expire_seconds) ==
    /\ Cardinality(signurl.calls) < MaxUrlCalls
    /\ signurl' = [signurl EXCEPT !.calls = @ \cup
          {[impl |-> "utils", now |-> signurl.now, expire_seconds |-> expire_seconds,
            url |-> generate_qiniu_timestamp_url(
                        signurl.base_url, signurl.key, TimestampKey,
                        signurl.now + expire_seconds)]}]
    /\ UNCHANGED <<viewVars, resVars, clientVars, detailVars, links, signer, astore, likes, site, codes>>

\* routers/upload.py: the same call on the router's own function
call_upload_generate(expire_seconds) ==
    /\ Cardinality(signurl.calls) < MaxUrlCalls
    /\ signurl' = [signurl EXCEPT !.calls = @ \cup
          {[impl |-> "upload", now |-> signurl.now, expire_seconds |-> expire_seconds,
            url |-> upload_generate_qiniu_timestamp_url(
                        signurl.base_url, signurl.key, TimestampKey,
                        signurl.now + expire_seconds)]}]
    /\ UNCHANGED <<viewVars, resVars, clientVars, detailVars, links, signer, astore, likes, site, codes>>

SignUrlInit ==
    ViewsQuiet /\ ResQuiet /\ ClientQuiet /\ DetailQuiet /\ LinksQuiet /\ SignerQuiet
    /\ SignUrlStart /\ AStoreQuiet /\ LikesQuiet /\ RestQuiet

SignUrlNext ==
    \/ signurl_tick
    \/ \E e \in ExpireSeconds : call_utils_generate(e)
    \/ \E e \in ExpireSeconds : call_upload_generate(e)

SpecSignUrl == SignUrlInit /\ [][SignUrlNext]_vars

----------------------------------------------------------------------------
(* Claims about generate_qiniu_timestamp_url, checked under SpecSignUrl *)

\* what a call appended to base_url: <<"sign=...", "t=...">>
Appended(url) == split(SubSeq(url, Len(signurl.base_url) + 2, Len(url)), "&")
SignValue(url) == SubSeq(Appended(url)[1], 6, Len(Appended(url)[1]))
TValue(url) == SubSeq(Appended(url)[2], 3, Len(Appended(url)[2]))

----------------------------------------------------------------------------
(* routers/articles.py: the links in articles.content and articles.cover *)

QINIU_TIMESTAMP_EXPIRE == 3600
QiniuDomain == Http \o ProviderDomain          \* settings.QINIU_DOMAIN

\* content and cover as a client sends them and as the table holds them
ArticleTexts ==
    {<<>>,
     UrlOf(<<"/", "k">>, <<>>, <<>>),
     UrlOf(<<"/", "k">>, <<<<"s", "i", "g", "n", "=", "1">>, <<"t", "=", "2">>>>, <<>>),
     UrlOf(<<"/", "k">>, <<<<"k", "=", "v">>, <<"s", "i", "g", "n", "=", "1">>>>, <<>>),
     <<"(">> \o UrlOf(<<"/", "k">>, <<<<"t", "=", "2">>>>, <<>>) \o <<")", " ">> \o SecondUrl}

\* the field as create_article and update_article store it
StoredText(text, enabled) ==
    IF enabled THEN strip_qiniu_params(text, QiniuDomain) ELSE text

\* cover as the handlers store it: stripped only "if cover"
StoredCover(cover, enabled) ==
    IF enabled /\ cover # None /\ Len(cover) > 0
    THEN strip_qiniu_params(cover, QiniuDomain) ELSE cover

\* the field as a handler that refreshes serves it
Refreshed(text, enabled) ==
    IF enabled
    THEN refresh_qiniu_params_in_content(text, QiniuDomain, TimestampKey,
                                         QINIU_TIMESTAMP_EXPIRE)
    ELSE text

RefreshedCover(cover, enabled) ==
    IF enabled /\ cover # None /\ Len(cover) > 0
    THEN refresh_qiniu_params_in_content(cover, QiniuDomain, TimestampKey,
                                         QINIU_TIMESTAMP_EXPIRE)
    ELSE cover

AStoreStart ==
    \E e \in BOOLEAN, c \in ArticleTexts \ {<<>>}, v \in ArticleTexts :
        astore = [enabled |-> e,
                  rows |-> (1 :> [content |-> StoredText(c, e),
                                  cover |-> StoredCover(v, e)]),
                  last |-> NoArticleCall]

\* create_article: Article(..., is_protected=..., protection_question=...,
\* protection_answer=...) raises TypeError for a keyword the class does not
\* map, before db.add
create_article(content_in, cover_in) ==
    /\ IF \A c \in ProtectionColumns : HasAttr(c)
       THEN astore' = [astore EXCEPT
               !.rows = (2 :> [content |-> StoredText(content_in, astore.enabled),
                               cover |-> StoredCover(cover_in, astore.enabled)]) @@ @,
               !.last = [op |-> "create", code |-> 200,
                         sent |-> <<content_in, cover_in>>, served |-> {}]]
       ELSE astore' = [astore EXCEPT
               !.last = [op |-> "create", code |-> 500,
                         sent |-> <<content_in, cover_in>>, served |-> {}]]
    /\ UNCHANGED <<viewVars, resVars, clientVars, detailVars, links, signer, signurl, likes, site, codes>>

\* update_article(article_id, article_in): None is a field left out
update_article(article_id, content_in, cover_in) ==
    /\ IF article_id \notin DOMAIN astore.rows
       THEN astore' = [astore EXCEPT
               !.last = [op |-> "update", code |-> 404,
                         sent |-> <<content_in, cover_in>>, served |-> {}]]
       ELSE astore' = [astore EXCEPT
               !.rows[article_id] =
                   [content |-> IF content_in # None
                                THEN StoredText(content_in, astore.enabled)
                                ELSE @.content,
                    cover |-> IF cover_in # None
                              THEN StoredCover(cover_in, astore.enabled)
                              ELSE @.cover],
               !.last = [op |-> "update", code |-> 200,
                         sent |-> <<content_in, cover_in>>, served |-> {}]]
    /\ UNCHANGED <<viewVars, resVars, clientVars, detailVars, links, signer, signurl, likes, site, codes>>

\* served (history): each field the response carries, with the stored field
\* it was made from
Covers(enabled, rows, refresh) ==
    {<<rows[a].cover, IF refresh THEN RefreshedCover(rows[a].cover, enabled)
                      ELSE rows[a].cover>> : a \in DOMAIN rows}

\* get_articles: the public list refreshes each cover
get_articles ==
    /\ astore' = [astore EXCEPT
            !.last = [op |-> "list", code |-> 200, sent |-> <<>>,
                      served |-> Covers(astore.enabled, astore.rows, TRUE)]]
    /\ UNCHANGED <<viewVars, resVars, clientVars, detailVars, links, signer, signurl, likes, site, codes>>

\* get_admin_articles: refreshes each cover, then reads article.is_protected
\* for the list item
get_admin_articles ==
    /\ astore' = [astore EXCEPT
            !.last = IF HasAttr("is_protected") \/ DOMAIN astore.rows = {}
                     THEN [op |-> "admin list", code |-> 200, sent |-> <<>>,
                           served |-> Covers(astore.enabled, astore.rows, TRUE)]
                     ELSE [op |-> "admin list", code |-> 500, sent |-> <<>>,
                           served |-> {}]]
    /\ UNCHANGED <<viewVars, resVars, clientVars, detailVars, links, signer, signurl, likes, site, codes>>

\* get_home_categorized_articles: cover=article.cover
get_home_categorized_articles ==
    /\ astore' = [astore EXCEPT
            !.last = [op |-> "home", code |-> 200, sent |-> <<>>,
                      served |-> Covers(astore.enabled, astore.rows, FALSE)]]
    /\ UNCHANGED <<viewVars, resVars, clientVars, detailVars, links, signer, signurl, likes, site, codes>>

\* get_article on a published article: the links of the body and of the cover
\* (lines 346-359) are refreshed after article.is_protected has been read
get_article_links(article_id) ==
    /\ astore' = [astore EXCEPT
            !.last = IF article_id \notin DOMAIN astore.rows
                     THEN [op |-> "detail", code |-> 404, sent |-> <<>>, served |-> {}]
                     ELSE IF ~HasAttr("is_protected")
                     THEN [op |-> "detail", code |-> 500, sent |-> <<>>, served |-> {}]
                     ELSE [op |-> "detail", code |-> 200, sent |-> <<>>,
                           served |->
                             {<<astore.rows[article_id].content,
                                Refreshed(astore.rows[article_id].content,
                                          astore.enabled)>>,
                              <<astore.rows[article_id].cover,
                                RefreshedCover(astore.rows[article_id].cover,
                                               astore.enabled)>>}]]
    /\ UNCHANGED <<viewVars, resVars, clientVars, detailVars, links, signer, signurl, likes, site, codes>>

AStoreInit ==
    ViewsQuiet /\ ResQuiet /\ ClientQuiet /\ DetailQuiet /\ LinksQuiet /\ SignerQuiet
    /\ SignUrlQuiet /\ AStoreStart /\ LikesQuiet /\ RestQuiet

AStoreNext ==
    \/ \E c \in ArticleTexts \ {<<>>}, v \in ArticleTexts \cup {None} :
          create_article(c, v)
    \/ \E a \in {1, 2}, c \in (ArticleTexts \ {<<>>}) \cup {None},
          v \in ArticleTexts \cup {None} : update_article(a, c, v)
    \/ get_articles
    \/ get_admin_articles
    \/ get_home_categorized_articles
    \/ \E a \in {1, 2} : get_article_links(a)

SpecAStore == AStoreInit /\ [][AStoreNext]_vars

----------------------------------------------------------------------------
(* Claims about the stored and the served links, checked under SpecAStore *)

\* the names of the query parameters of a URL
QueryNames(url) ==
    LET fields == split(urlparse(url).query, "&")
        Name(f) == LET e == IndexFrom(f, {"="}, 1)
                   IN  unquote_plus(IF e = 0 THEN f ELSE SubSeq(f, 1, e - 1))
    IN  {Name(fields[i]) : i \in 1..Len(fields)}

\* the URLs on the provider domain in a text
ProviderUrls(text) ==
    IF text = None THEN {}
    ELSE LET ps == Pieces(text, ProviderDomain, 1)
         IN  {ps[i].text : i \in {j \in 1..Len(ps) : ps[j].url}}

CarriesSignature(text) ==
    \E u \in ProviderUrls(text) : SignName \in QueryNames(u) \/ TName \in QueryNames(u)

\* C22: with timestamp signing active, no stored body and no stored cover
\* holds a URL on the provider domain with a sign or a t query parameter.
C22_StoredLinksStripped ==
    astore.enabled
    => \A a \in DOMAIN astore.rows :
          /\ ~CarriesSignature(astore.rows[a].content)
          /\ ~CarriesSignature(astore.rows[a].cover)

\* C22 witness: update_article has stored a body and a cover that were sent
\* with signed links.
C22_SignedLinksSent ==
    /\ astore.enabled
    /\ astore.last.op = "update" /\ astore.last.code = 200
    /\ CarriesSignature(astore.last.sent[1])
    /\ CarriesSignature(astore.last.sent[2])

\* C23: with timestamp signing active, every read that serves a cover or a
\* body serves each link on the provider domain with a sign and a t query
\* parameter, never as it is stored.
C23_ServedLinksSigned ==
    (astore.enabled /\ astore.last.code = 200)
    => \A f \in astore.last.served :
          \A u \in ProviderUrls(f[2]) :
              SignName \in QueryNames(u) /\ TName \in QueryNames(u)

----------------------------------------------------------------------------
(* routers/articles.py: like_article and unlike_article on one article *)

\* like_article up to "if existing_like": the article is loaded (with its
\* like_count) and the like of this liker is looked up
like_check(w, liker) ==
    /\ likes.req[w].pc = "idle"
    /\ likes.calls < MaxLikeCalls
    /\ likes' = [likes EXCEPT
                   !.calls = @ + 1,
                   !.req[w] = IF likes.rows[liker] > 0 THEN IdleLike(400)
                              ELSE [pc |-> "l_commit", liker |-> liker,
                                    loaded |-> likes.like_count]]
    /\ UNCHANGED <<viewVars, resVars, clientVars, detailVars, links, signer, signurl, astore, site, codes>>

\* db.add(new_like); article.like_count += 1; db.commit(): the INSERT (the
\* table has no unique constraint) and UPDATE like_count = loaded + 1
like_commit(w) ==
    /\ likes.req[w].pc = "l_commit"
    /\ likes' = [likes EXCEPT
                   !.rows[likes.req[w].liker] = @ + 1,
                   !.like_count = likes.req[w].loaded + 1,
                   !.req[w] = IdleLike(200)]
    /\ UNCHANGED <<viewVars, resVars, clientVars, detailVars, links, signer, signurl, astore, site, codes>>

\* unlike_article up to "if not existing_like"
unlike_check(w, liker) ==
    /\ likes.req[w].pc = "idle"
    /\ likes.calls < MaxLikeCalls
    /\ likes' = [likes EXCEPT
                   !.calls = @ + 1,
                   !.req[w] = IF likes.rows[liker] = 0 THEN IdleLike(400)
                              ELSE [pc |-> "u_commit", liker |-> liker,
                                    loaded |-> likes.like_count]]
    /\ UNCHANGED <<viewVars, resVars, clientVars, detailVars, links, signer, signurl, astore, site, codes>>

\* db.delete(existing_like); if article.like_count > 0: article.like_count -= 1;
\* db.commit(): the DELETE of the row that was found (a row that is gone is
\* a warning) and UPDATE like_count
unlike_commit(w) ==
    /\ likes.req[w].pc = "u_commit"
    /\ likes' = [likes EXCEPT
                   !.rows[likes.req[w].liker] = IF @ > 0 THEN @ - 1 ELSE @,
                   !.like_count = IF likes.req[w].loaded > 0
                                  THEN likes.req[w].loaded - 1
                                  ELSE likes.req[w].loaded,
                   !.req[w] = IdleLike(200)]
    /\ UNCHANGED <<viewVars, resVars, clientVars, detailVars, links, signer, signurl, astore, site, codes>>

LikesInit ==
    ViewsQuiet /\ ResQuiet /\ ClientQuiet /\ DetailQuiet /\ LinksQuiet /\ SignerQuiet
    /\ MoreQuiet

LikesNext ==
    \/ \E w \in LikeWorkers, l \in Likers : like_check(w, l)
    \/ \E w \in LikeWorkers : like_commit(w)
    \/ \E w \in LikeWorkers, l \in Likers : unlike_check(w, l)
    \/ \E w \in LikeWorkers : unlike_commit(w)

SpecLikes == LikesInit /\ [][LikesNext]_vars

----------------------------------------------------------------------------
(* Claims about the likes, checked under SpecLikes *)

RECURSIVE SumRows(_)
SumRows(ls) ==
    IF ls = {} THEN 0
    ELSE LET l == CHOOSE x \in ls : TRUE IN likes.rows[l] + SumRows(ls \ {l})

\* C28: under every interleaving there is at most one ArticleLike record per
\* liker of the article, and like_count is the number of its records.
C28_NoDuplicateLike ==
    /\ \A l \in Likers : likes.rows[l] <= 1
    /\ likes.like_count = SumRows(Likers)

----------------------------------------------------------------------------
(* routers/site.py: get_site_config and update_site_config *)

\* The configuration is its version: update_site_config saves the next one.
\* The store answers every call here; clean (history) tells that the call
\* began with no update and no earlier reader of an update in flight and
\* that no update began while it ran.

Dirty == site.writer # "idle" \/ \E w \in SiteWorkers : site.req[w].pc # "idle" /\ ~site.req[w].clean

\* cached_config = redis_client.get("site_config"); "if cached_config:" returns it
get_site_config_cache(w) ==
    /\ site.req[w].pc = "idle"
    /\ site.calls < MaxSiteCalls
    /\ site' = [site EXCEPT
                  !.calls = @ + 1,
                  !.req[w] = IF site.cache # 0
                             THEN [pc |-> "idle", returned |-> ~Dirty,
                                   value |-> site.cache, expected |-> site.db]
                             ELSE [pc |-> "query", clean |-> ~Dirty]]
    /\ UNCHANGED <<viewVars, resVars, clientVars, detailVars, links, signer, signurl, astore, likes, codes>>

\* the cache miss: the get_val queries build the configuration
get_site_config_query(w) ==
    /\ site.req[w].pc = "query"
    /\ site' = [site EXCEPT !.req[w] = [@ EXCEPT !.pc = "set"] @@ [config |-> site.db]]
    /\ UNCHANGED <<viewVars, resVars, clientVars, detailVars, links, signer, signurl, astore, likes, codes>>

\* redis_client.set("site_config", config.model_dump(), expire=3600); return
get_site_config_set(w) ==
    /\ site.req[w].pc = "set"
    /\ site' = [site EXCEPT
                  !.cache = site.req[w].config,
                  !.req[w] = [pc |-> "idle", returned |-> site.req[w].clean,
                              value |-> site.req[w].config, expected |-> site.db]]
    /\ UNCHANGED <<viewVars, resVars, clientVars, detailVars, links, signer, signurl, astore, likes, codes>>

\* the cached configuration reaches its TTL
site_config_expire ==
    /\ site.cache # 0
    /\ site' = [site EXCEPT !.cache = 0]
    /\ UNCHANGED <<viewVars, resVars, clientVars, detailVars, links, signer, signurl, astore, likes, codes>>

\* update_site_config by an admin: the set_val calls and db.commit()
update_site_config_commit ==
    /\ site.writer = "idle"
    /\ site.calls < MaxSiteCalls
    /\ site' = [site EXCEPT
                  !.calls = @ + 1,
                  !.db = @ + 1,
                  !.writer = "delete",
                  !.req = [w \in SiteWorkers |->
                             IF site.req[w].pc = "idle" THEN site.req[w]
                             ELSE [site.req[w] EXCEPT !.clean = FALSE]]]
    /\ UNCHANGED <<viewVars, resVars, clientVars, detailVars, links, signer, signurl, astore, likes, codes>>

\* redis_client.delete("site_config"); return
update_site_config_delete ==
    /\ site.writer = "delete"
    /\ site' = [site EXCEPT !.cache = 0, !.writer = "idle"]
    /\ UNCHANGED <<viewVars, resVars, clientVars, detailVars, links, signer, signurl, astore, likes, codes>>

SiteInit ==
    ViewsQuiet /\ ResQuiet /\ ClientQuiet /\ DetailQuiet /\ LinksQuiet /\ SignerQuiet
    /\ MoreQuiet

SiteNext ==
    \/ \E w \in SiteWorkers : get_site_config_cache(w)
    \/ \E w \in SiteWorkers : get_site_config_query(w)
    \/ \E w \in SiteWorkers : get_site_config_set(w)
    \/ site_config_expire
    \/ update_site_config_commit
    \/ update_site_config_delete

SpecSite == SiteInit /\ [][SiteNext]_vars

----------------------------------------------------------------------------
(* Claims about the site configuration, checked under SpecSite *)

\* C29: a get_site_config call that begins when update_site_config has
\* returned and every get_site_config that was in flight during an update
\* has completed, and that no update overlaps, returns the configuration in
\* the database.
C29_NoStaleConfig ==
    \A w \in SiteWorkers :
        (site.req[w].pc = "idle" /\ site.req[w].returned)
        => site.req[w].value = site.req[w].expected

----------------------------------------------------------------------------
(* routers/auth.py: forgot_password and reset_password for one email *)

CodeValues == {<<"1", "2", "3", "4", "5", "6">>, <<"0", "0", "0", "0", "0", "7">>}

\* forgot_password: redis_client.set(key, code, expire=600) and the email;
\* gen and wins (history): the codes issued so far, and for each the
\* reset_password calls answered 200 with it
forgot_password(code) ==
    /\ codes.calls < MaxCodeCalls
    /\ \E up \in BOOLEAN :
         LET r == RedisClient_set(codes.store, CodeKey, PyStr(code), up) IN
         codes' = [codes EXCEPT
                     !.calls = @ + 1,
                     !.store = r.store,
                     !.gen = IF up THEN @ + 1 ELSE @,
                     !.wins = IF up THEN Append(@, 0) ELSE @]
    /\ UNCHANGED <<viewVars, resVars, clientVars, detailVars, links, signer, signurl, astore, likes, site>>

\* reset_password up to the code check: saved_code = redis_client.get(key);
\* "if not saved_code or saved_code != request.code" answers 400
reset_password_get(w, code) ==
    /\ codes.req[w].pc = "idle"
    /\ codes.calls < MaxCodeCalls
    /\ \E up \in BOOLEAN :
         LET saved_code == RedisClient_get(codes.store, CodeKey, up).ret IN
         codes' = [codes EXCEPT
                     !.calls = @ + 1,
                     !.req[w] = IF ~PyTruthy(saved_code) \/ saved_code # PyStr(code)
                                THEN IdleCode(400)
                                ELSE [pc |-> "commit", gen |-> codes.gen]]
    /\ UNCHANGED <<viewVars, resVars, clientVars, detailVars, links, signer, signurl, astore, likes, site>>

\* user.hashed_password = ...; db.commit()
reset_password_commit(w) ==
    /\ codes.req[w].pc = "commit"
    /\ codes' = [codes EXCEPT !.req[w] = [@ EXCEPT !.pc = "delete"]]
    /\ UNCHANGED <<viewVars, resVars, clientVars, detailVars, links, signer, signurl, astore, likes, site>>

\* redis_client.client.delete(key) on the raw client (it raises when the
\* store is unreachable) and the return
reset_password_delete(w) ==
    /\ codes.req[w].pc = "delete"
    /\ \E up \in BOOLEAN :
         codes' = [codes EXCEPT
                     !.store = IF up THEN RedisClient_delete(@, CodeKey, TRUE).store ELSE @,
                     !.wins = IF up THEN [@ EXCEPT ![codes.req[w].gen] = @ + 1] ELSE @,
                     !.req[w] = IdleCode(IF up THEN 200 ELSE 500)]
    /\ UNCHANGED <<viewVars, resVars, clientVars, detailVars, links, signer, signurl, astore, likes, site>>

CodesInit ==
    ViewsQuiet /\ ResQuiet /\ ClientQuiet /\ DetailQuiet /\ LinksQuiet /\ SignerQuiet
    /\ MoreQuiet

CodesNext ==
    \/ \E c \in CodeValues : forgot_password(c)
    \/ \E w \in CodeWorkers, c \in CodeValues : reset_password_get(w, c)
    \/ \E w \in CodeWorkers : reset_password_commit(w)
    \/ \E w \in CodeWorkers : reset_password_delete(w)

SpecCodes == CodesInit /\ [][CodesNext]_vars

----------------------------------------------------------------------------
(* Claims about the emailed codes, checked under SpecCodes *)

\* C30: a code is single-use: of the reset_password calls that present a code
\* issued for the email, at most one is answered 200.
C30_CodeIsSingleUse ==
    \A g \in 1..Len(codes.wins) : codes.wins[g] <= 1

----------------------------------------------------------------------------
(* Claims about the cache client, checked under SpecClient *)

DefaultValue(op) ==
    CASE op = "get" -> PyNone
      [] op = "set" -> PyBool(FALSE)
      [] op = "delete" -> PyBool(FALSE)
      [] op = "incr" -> PyInt(0)
      [] OTHER -> PyNone

\* C10: no call of the cache client raises; a call that failed returns None
\* (get), False (set, delete) or 0 (incr) and leaves the store as it was.
C10_ClientNeverRaises ==
    /\ ~cret.raised
    /\ cret.failed => (cret.value = DefaultValue(cret.op) /\ ~cret.changed)

\* C10 witness: an incr call has failed and returned 0 to its caller.
C10_IncrFailed ==
    /\ cret.op = "incr"
    /\ cret.failed
    /\ cret.value = PyInt(0)

----------------------------------------------------------------------------
(* Claims about the resource list, checked under SpecRes *)

VersionInt(v) == IF v = None THEN 0 ELSE StrToInt(v)

\* C8: a get_resources call that begins after create_resource has returned
\* for a resource never returns a page that was cached before that creation
\* and was read from a table without the resource.
C8_NoStalePage ==
    \A w \in ResWorkers :
        rreq[w].pc = "g_hit"
        => \A id \in rreq[w].mustSee \ rhist.removed :
              ~(id \notin rreq[w].page.seen /\ id \notin rreq[w].page.src)

\* C9: resources:list:version never decreases; the step in which a
\* create_resource call that inserted a row, or a delete_resource call that
\* deleted one, returns is a step that increments it by exactly one, and no
\* other step changes it; a create_resource call for an existing key inserts
\* nothing and leaves it unchanged.
C9_VersionBumps ==
    [][ /\ VersionInt(rversion') >= VersionInt(rversion)
        /\ rhist'.returned # rhist.returned
           => VersionInt(rversion') = VersionInt(rversion) + 1
        /\ rversion' # rversion => rhist'.returned = rhist.returned + 1
        /\ \A w \in ResWorkers :
              ( rreq[w].pc = "idle" /\ rreq'[w] # rreq[w]
                /\ rreq'[w] = IdleRes("Resource already exists") )
              => ( res_rows' = res_rows /\ rversion' = rversion ) ]_vars

\* C9 witness: a create and a delete have returned, a second create found its
\* key, and the version stands at 2.
C9_TwoBumps ==
    /\ rhist.returned = 2
    /\ rhist.removed # {}
    /\ rhist.created # {}
    /\ \E w \in ResWorkers : rreq[w] = IdleRes("Resource already exists")
    /\ rversion = <<"2">>

\* C24: the cache is advisory: every row that create_resource has committed
\* belongs to a call that returned success or that is still on its way to
\* the return, whether the store is reachable or not.
C24_CacheIsAdvisory ==
    \A i \in 1..Len(res_rows) :
        \/ res_rows[i].id \in rhist.created
        \/ \E w \in ResWorkers : rreq[w].pc = "c_incr" /\ rreq[w].id = res_rows[i].id

----------------------------------------------------------------------------

ViewsInit == ViewsStart /\ ResQuiet /\ ClientQuiet /\ DetailQuiet /\ LinksQuiet /\ SignerQuiet /\ MoreQuiet

ViewsNext ==
    \/ \E w \in Workers, a \in RequestIds, is_admin \in BOOLEAN :
          get_article_query(w, a, is_admin)
    \/ \E w \in Workers : get_article_commit(w)
    \/ \E w \in Workers : get_article_error(w)
    \/ \E k \in ViewKeys : incr(k)
    \/ sync_start
    \/ \E k \in ViewKeys : sync_scan(k)
    \/ sync_update
    \/ sync_commit
    \/ sync_fail

SpecViews == ViewsInit /\ [][ViewsNext]_vars

----------------------------------------------------------------------------
(* sync_views_to_db over a store that also holds malformed counters *)

\* keys that match article:*:views and do not parse
BadIdKey == ArticlePrefix \o <<"a", "b", "c">> \o ViewsSuffix
BadSegmentsKey == ArticlePrefix \o <<"1", ":", "2">> \o ViewsSuffix
BadKeys == {BadIdKey, BadSegmentsKey}
ScanKeys == ViewKeys \cup BadKeys

\* the value each key can hold when the pass starts ("x" is no integer)
ScanValues(k) ==
    IF k = ViewsKey(1) THEN {None, <<"5">>, <<"x">>}
    ELSE IF k = ViewsKey(7) THEN {None, <<"4", "2">>}
    ELSE IF k \in BadKeys THEN {None, <<"9">>}
    ELSE {None}

ScanStart ==
    /\ view_count = InitViewCount
    /\ redis \in {f \in [ScanKeys -> {None, <<"5">>, <<"x">>, <<"4", "2">>, <<"9">>}] :
                     \A k \in ScanKeys : f[k] \in ScanValues(k)}
    /\ req = [w \in Workers |-> IdleReq]
    /\ sync = IdleSync
    /\ hist = [reads |-> [a \in ArticleIds |-> 0],
               incrs |-> [a \in ArticleIds |-> 0],
               rets |-> [a \in ArticleIds |-> {}],
               calls |-> 0,
               passes |-> 0,
               commits |-> 0,
               discarded |-> 0,
               outcome |-> "none",
               redis0 |-> redis]

ScanInit == ScanStart /\ ResQuiet /\ ClientQuiet /\ DetailQuiet /\ LinksQuiet /\ SignerQuiet /\ MoreQuiet

\* the pass with the store and the database answering every call
ScanNext ==
    \/ sync_start
    \/ \E k \in ScanKeys : sync_scan(k)
    \/ sync_update
    \/ sync_commit

SpecScan == ScanInit /\ [][ScanNext]_vars

\* a counter the pass can flush: a well-formed key with an integer value
WellFormed(k) == k \in ViewKeys /\ Truthy(redis[k]) /\ IntParses(redis[k])
Malformed(k) == k \in ScanKeys /\ redis[k] # None /\ ~WellFormed(k)

\* C16: a malformed counter never aborts the pass: with the store and the
\* database answering, no pass fails, and every pass over a store that holds
\* a well-formed counter commits with every well-formed counter flushed.
C16_BadKeySkipped ==
    /\ hist.outcome # "failed"
    /\ ( /\ sync.pc = "idle" /\ hist.passes >= 1
         /\ \E k \in ScanKeys : WellFormed(k) )
       => /\ hist.outcome = "committed"
          /\ hist.commits = hist.passes
          /\ \A k \in ScanKeys :
                WellFormed(k) => view_count[KeyArticle(k)] = StrToInt(redis[k])

\* C16 witness: a pass over a non-numeric identifier, a key of four segments
\* and a non-integer value has committed the one well-formed counter.
C16_CommittedDespiteBadKeys ==
    /\ hist.outcome = "committed"
    /\ redis[BadIdKey] # None
    /\ redis[BadSegmentsKey] # None
    /\ redis[ViewsKey(1)] = <<"x">>
    /\ view_count[7] = 42
    /\ view_count[1] = InitViewCount[1]

\* C17: a pass whose scan finds no counter to flush is a no-op: it changes
\* no durable row, commits nothing, and ends normally.
C17_EmptyScanIsNoOp ==
    (\A k \in ScanKeys : ~WellFormed(k))
    => /\ view_count = InitViewCount
       /\ hist.commits = 0
       /\ sync.pc # "flushing"
       /\ hist.outcome \in {"none", "running", "noop"}
       /\ (sync.pc = "idle" /\ hist.passes >= 1) => hist.outcome = "noop"

\* C17 witness: a pass over a store without any counter key has ended.
C17_NoOpPass ==
    /\ \A k \in ScanKeys : redis[k] = None
    /\ hist.passes >= 1
    /\ sync.pc = "idle"
    /\ hist.outcome = "noop"
    /\ hist.commits = 0

----------------------------------------------------------------------------
(* The pass as the scheduler runs it: a pass that has started goes on *)

\* the pass with calls that can raise
PassNext == ScanNext \/ sync_fail

\* a step of a pass that has started: the job runs to its return
PassStep ==
    \/ \E k \in ScanKeys : sync_scan(k)
    \/ sync_update
    \/ sync_commit
    \/ sync_fail

SpecPass == ScanInit /\ [][PassNext]_vars /\ WF_vars(PassStep)

\* the interval trigger keeps firing, and every call answers
SpecTicks == ScanInit /\ [][ScanNext]_vars /\ WF_vars(ScanNext)

NonZeroCounter(k) == WellFormed(k) /\ StrToInt(redis[k]) # 0

\* C26: with no further read or counter change, ticks that keep firing and a
\* store and a database that answer, the durable view_count of every article
\* with a non-zero counter becomes the counter's value and stays there.
C26_DurableCatchesUp ==
    <>[](\A k \in ViewKeys :
            NonZeroCounter(k) => view_count[KeyArticle(k)] = StrToInt(redis[k]))

\* C26 witness: the durable counts were behind and ahead of the counters, and
\* one pass has made them equal.
C26_CaughtUp ==
    /\ hist.passes = 1
    /\ sync.pc = "idle"
    /\ NonZeroCounter(ViewsKey(1)) /\ NonZeroCounter(ViewsKey(7))
    /\ StrToInt(redis[ViewsKey(1)]) < InitViewCount[1]
    /\ StrToInt(redis[ViewsKey(7)]) > InitViewCount[7]
    /\ view_count[1] = StrToInt(redis[ViewsKey(1)])
    /\ view_count[7] = StrToInt(redis[ViewsKey(7)])

----------------------------------------------------------------------------
(* Claims about the view counters, checked under SpecViews *)

AllIdle == \A w \in Workers : req[w].pc = "idle"
NoReads == \A a \in ArticleIds : hist.reads[a] = 0
NoIncrs == \A a \in ArticleIds : hist.incrs[a] = 0

\* C1: with a durable view-count of 10 and the key article:{id}:views absent,
\* two completed fast-counter increments leave the fast counter at 12 (the
\* counter is seeded from the durable count on first touch).
C1_SeededCounterReads12 ==
    \A a \in ArticleIds :
        ( /\ hist.redis0[ViewsKey(a)] = None
          /\ InitViewCount[a] = 10
          /\ hist.incrs[a] = 2 )
        => redis[ViewsKey(a)] = IntToStr(12)

\* C2: when N get_article requests for one article have all completed, with
\* no reconciliation pass in between, the durable view_count is its initial
\* value plus N.
C2_NoLostIncrement ==
    (AllIdle /\ hist.passes = 0)
    => \A a \in ArticleIds : view_count[a] = InitViewCount[a] + hist.reads[a]

\* C3: the step in which a get_article call for a published article commits
\* its view makes the durable view_count grow by exactly one and leaves the
\* fast counter alone.
C3_ExactlyOneIncrement ==
    [][\A w \in Workers :
          ( /\ req[w].pc = "loaded"
            /\ is_published(req[w].article_id)
            /\ hist.passes = 0
            /\ hist'.reads[req[w].article_id] = hist.reads[req[w].article_id] + 1 )
          => ( /\ view_count'[req[w].article_id] = view_count[req[w].article_id] + 1
               /\ redis' = redis )]_vars

\* C4: the scan records, for each counter key with an integer value, exactly
\* the value it read, and the commit of the pass sets the durable view_count of
\* every recorded article to that value, whatever the durable count was.
C4_FlushOverwrites ==
    [][ /\ ( sync.pc = "scanning" /\ sync' # sync /\ sync'.pc # "idle" )
           => \E k \in sync.toScan :
                 /\ sync'.toScan = sync.toScan \ {k}
                 /\ IntParses(redis[k])
                    => /\ DictHas(sync'.updates, KeyArticle(k))
                       /\ DictGet(sync'.updates, KeyArticle(k)) = StrToInt(redis[k])
        /\ ( hist'.commits = hist.commits + 1 )
           => \A i \in 1..Len(sync.updates) :
                 view_count'[sync.updates[i][1]] = sync.updates[i][2] ]_vars

\* C4 witness: a pass has committed the cache value 5 over a durable count
\* that get_article had already raised above 10.
C4_Undercount ==
    /\ hist.commits >= 1
    /\ hist.reads[1] >= 1
    /\ view_count[1] = 5
    /\ view_count[1] < InitViewCount[1] + hist.reads[1]

\* C5: a pass over the counters {1: 5, 2: 0, 7: 42}, with nothing else going
\* on, sets the durable counts of articles 1 and 7 to 5 and 42 and leaves the
\* durable count of article 2 as it was.
C5_ZeroNotFlushed ==
    ( /\ \A a \in ArticleIds : hist.redis0[ViewsKey(a)] = ExampleCounters[a]
      /\ hist.commits = 1
      /\ NoReads /\ NoIncrs /\ AllIdle )
    => ( /\ view_count[1] = 5
         /\ view_count[7] = 42
         /\ view_count[2] = InitViewCount[2] )

\* C6: a reconciliation pass is all-or-nothing: no step of a pass other than
\* its commit changes a durable view_count (a failure leaves every count as it
\* was), and the commit applies every update of the pass in the same step.
C6_AllOrNothing ==
    [][ /\ ( sync' # sync /\ hist'.commits = hist.commits )
           => view_count' = view_count
        /\ ( hist'.commits = hist.commits + 1 )
           => \A a \in ArticleIds :
                 view_count'[a] = IF DictHas(sync.updates, a)
                                  THEN DictGet(sync.updates, a)
                                  ELSE view_count[a] ]_vars

\* C6 witness: a pass failed after at least one UPDATE had run, and the
\* durable counts are the ones from before the pass.
C6_FailedMidFlush ==
    /\ hist.discarded >= 1
    /\ hist.commits = 0
    /\ NoReads
    /\ view_count = InitViewCount

\* C11: the increment is atomic in the store: when N increment calls on a key
\* that was absent have completed, the key holds N and the calls have returned
\* the values 1..N, each once.
C11_AtomicIncrement ==
    \A a \in ArticleIds :
        ( hist.redis0[ViewsKey(a)] = None /\ hist.incrs[a] >= 1 )
        => ( /\ redis[ViewsKey(a)] = IntToStr(hist.incrs[a])
             /\ hist.rets[a] = 1..hist.incrs[a] )

\* C11 witness: three increments on the absent key of article 7 have completed
\* and returned 1, 2 and 3.
C11_ThreeIncrements ==
    /\ hist.redis0[ViewsKey(7)] = None
    /\ hist.incrs[7] = 3
    /\ hist.rets[7] = {1, 2, 3}
    /\ redis[ViewsKey(7)] = <<"3">>

====
